---- MODULE Spec2Model ----
(***************************************************************************)
(* Workflow service: registry validation, the five registered LangGraph    *)
(* graphs, WorkflowExecutor (basic and streaming drives, resume), the      *)
(* AG-UI stream adapter and the HTTP endpoints /execute and /resume.       *)
(*                                                                         *)
(* The LangGraph runtime is the environment of the repository's code.  It  *)
(* is modelled by what the code relies on: a compiled graph dispatches one *)
(* node per superstep, interrupt() suspends the run and stores a           *)
(* checkpoint under the thread id of the call's config, ainvoke returns    *)
(* the channel values when the run suspends or ends, and raises when a     *)
(* node raises or the recursion limit is reached.                          *)
(***************************************************************************)
EXTENDS Integers, Sequences, FiniteSets, TLC

\* ------------------------------------------------------------------ bounds
MaxRequests == 3       \* total number of requests started in a behaviour
SmallLimit == 3        \* a caller-configured recursion_limit below a path length

\* ------------------------------------------------------- program constants
DEFAULT_RECURSION_LIMIT == 25     \* executor.py:104
SERVER_RECURSION_LIMIT == 30      \* server.py:196, server.py:285
LARGE_ORDER_THRESHOLD == 5000     \* fulfillment_graph.py:82
AUTO_APPROVE_BELOW == 1000        \* fulfillment_graph.py:238
DEFAULT_STOCK == 100              \* fulfillment_graph.py:363

Slots == {"r1", "r2"}
ThreadIds == {"t1"}
NoThread == "none"
NoDecision == "none"
Decisions == {"approve", "reject"}

GraphNames ==
  {"hotel_o2c", "hospital_admissions", "manufacturing_production",
   "retail_fulfillment", "education_admissions"}

END == "__end__"

\* ------------------------------------------------------------ run state
\* A run state is the map the graph's channels hold.  `has` is the set of
\* base keys present in the map; a key outside `has` raises KeyError when a
\* node subscripts it and yields the default when a node uses .get().
BaseKeys ==
  {"current_step", "steps_completed", "errors", "pending_approval",
   "approval_decision"}

\* state.py create_base_state: the five base fields with their defaults
create_base_state(initial_step) ==
  [has |-> BaseKeys,
   current_step |-> initial_step,
   steps_completed |-> << >>,
   errors |-> << >>,
   pending_approval |-> FALSE,
   approval_decision |-> "null"]

\* a state map without any base field
NoBaseFields ==
  [create_base_state("") EXCEPT !.has = {}]

\* A caller-built initial state: the schema fields of the graph (`valid`
\* tells whether every required one is there), the lines of the order and,
\* when the caller used create_base_state, the base fields (a caller may
\* also hand in pending_approval = True).  A line is <<item_code, qty,
\* rate>>: retail's order_items, and for manufacturing the one line
\* <<item_code, qty_to_produce, 0>>.
InitialState(withBase, pending, valid, order_items, protocol) ==
  (IF withBase
     THEN [create_base_state("start") EXCEPT !.pending_approval = pending]
     ELSE NoBaseFields)
  @@ [valid |-> valid,
      empty |-> FALSE,
      order_items |-> order_items, protocol |-> protocol,
      low_stock |-> FALSE, order_total |-> 0, material_shortage |-> FALSE,
      interrupt |-> FALSE,
      error |-> ""]

\* executor.py:304-306  resume_state = {} when the caller gives none
EmptyState ==
  [InitialState(FALSE, FALSE, FALSE, << >>, FALSE) EXCEPT !.empty = TRUE]

\* stream_adapter.py:184, server.py:335  the state {"error": str(e)}
ErrorState(msg) ==
  [InitialState(FALSE, FALSE, FALSE, << >>, FALSE) EXCEPT !.error = msg]

\* fulfillment_graph.py test_workflow: the order it fulfils, 11675 in all,
\* the monitors running low
TestOrder ==
  << <<"LAPTOP-DELL-I5", 10, 850>>, <<"MOUSE-WIRELESS", 15, 25>>,
     <<"KEYBOARD-MECH", 10, 120>>, <<"MONITOR-24", 8, 200>> >>

\* The orders a caller supplies per graph.
\* retail: 750 in two lines (no gate), 750 of an item without a stock row
\* (no gate), 750 that takes the last laptops or leaves 7 monitors (low
\* stock: sales-order gate only), 1000 (payment gate only), 6000 (large
\* order) and test_workflow's order (low stock and large);
\* manufacturing: 5 chairs (materials on hand) or 10.
OrdersOf(g) ==
  CASE g = "retail_fulfillment" ->
         {<< <<"LAPTOP-DELL-I5", 10, 50>>, <<"MOUSE-WIRELESS", 10, 25>> >>,
          << <<"ITEM-001", 5, 150>> >>,
          << <<"LAPTOP-DELL-I5", 25, 30>> >>,
          << <<"MONITOR-24", 5, 150>> >>,
          << <<"ITEM-001", 5, 200>> >>,
          << <<"ITEM-001", 10, 600>> >>,
          TestOrder}
    [] g = "manufacturing_production" ->
         {<< <<"CHAIR-WOODEN", 5, 0>> >>, << <<"CHAIR-WOODEN", 10, 0>> >>}
    [] OTHER -> {<< >>}

ProtocolsOf(g) == IF g = "hospital_admissions" THEN BOOLEAN ELSE {TRUE}

\* bare schema fields / create_base_state() / base fields with the flag set
BaseKinds == {<<FALSE, FALSE>>, <<TRUE, FALSE>>, <<TRUE, TRUE>>}

ValidStatesOf(g) ==
  { InitialState(b[1], b[2], TRUE, o, c) :
      b \in BaseKinds, o \in OrdersOf(g), c \in ProtocolsOf(g) }

\* an initial state lacking a required schema field
InvalidStatesOf(g) ==
  { InitialState(FALSE, FALSE, FALSE, o, TRUE) : o \in OrdersOf(g) }

\* ------------------------------------------------------ state schemas
\* WorkflowRegistry.WORKFLOWS: initial_state_schema of each descriptor, in
\* the order of the dict: <<field, base type, carries "(optional)">>
Schema(g) ==
  CASE g = "hotel_o2c" ->
         << <<"reservation_id", "str", FALSE>>, <<"guest_name", "str", FALSE>>,
            <<"room_number", "str", FALSE>>, <<"check_in_date", "str", FALSE>>,
            <<"check_out_date", "str", FALSE>> >>
    [] g = "hospital_admissions" ->
         << <<"patient_name", "str", FALSE>>, <<"admission_date", "str", FALSE>>,
            <<"primary_diagnosis", "str", FALSE>>,
            <<"clinical_protocol", "str", TRUE>> >>
    [] g = "manufacturing_production" ->
         << <<"item_code", "str", FALSE>>, <<"item_name", "str", FALSE>>,
            <<"qty_to_produce", "float", FALSE>>,
            <<"production_date", "str", FALSE>>, <<"warehouse", "str", FALSE>> >>
    [] g = "retail_fulfillment" ->
         << <<"customer_name", "str", FALSE>>, <<"customer_id", "str", FALSE>>,
            <<"order_items", "list", FALSE>>, <<"delivery_date", "str", FALSE>>,
            <<"warehouse", "str", FALSE>> >>
    [] g = "education_admissions" ->
         << <<"applicant_name", "str", FALSE>>, <<"applicant_email", "str", FALSE>>,
            <<"program_name", "str", FALSE>>, <<"application_date", "str", FALSE>>,
            <<"academic_score", "float", FALSE>> >>

SchemaFields(g) == {Schema(g)[i][1] : i \in 1..Len(Schema(g))}
OptionalFields(g) ==
  {Schema(g)[i][1] : i \in {j \in 1..Len(Schema(g)) : Schema(g)[j][3]}}

\* The schema fields a run state holds: a valid one has every required field
\* (and clinical_protocol when `protocol`), an invalid one only the first two
\* fields of the schema, {} none.
Present(g, st) ==
  IF st.empty THEN {}
  ELSE IF st.valid
    THEN (SchemaFields(g) \ OptionalFields(g))
           \cup (IF st.protocol THEN OptionalFields(g) ELSE {})
  ELSE {Schema(g)[1][1], Schema(g)[2][1]}

\* ------------------------------------------------------- node results
\* What a node body hands back to the runtime: an update with the successor
\* (Command(goto=...) or the static edge), a suspension (interrupt() with no
\* resume value) or an exception.
Update(st, goto) == [kind |-> "update", goto |-> goto, st |-> st, err |-> ""]
Interrupt(st) == [kind |-> "interrupt", goto |-> "", st |-> st, err |-> ""]
Raise(st, err) == [kind |-> "raise", goto |-> "", st |-> st, err |-> err]

Has(st, k) == k \in st.has

\* state["steps_completed"] + [step]   (KeyError when the key is absent)
\* state.get("steps_completed", []) + [step]   (lenient)
AppendStep(st, step, cur) ==
  [st EXCEPT !.has = @ \cup {"steps_completed", "current_step"},
             !.steps_completed = Append(@, step),
             !.current_step = cur]

\* the "approve" branch of a gate: step recorded, decision approved,
\* pending_approval cleared
Approved(st, step, cur) ==
  [AppendStep(st, step, cur) EXCEPT
      !.has = @ \cup {"approval_decision", "pending_approval"},
      !.approval_decision = "approved",
      !.pending_approval = FALSE]

\* the else branch of a gate: error record appended, decision rejected,
\* pending_approval cleared; current_step is left as it was
Rejected(st, step) ==
  [st EXCEPT !.has = @ \cup {"approval_decision", "pending_approval"},
             !.errors = Append(@, step),
             !.approval_decision = "rejected",
             !.pending_approval = FALSE]

\* a terminal node: {**state, "current_step": cur}
Terminal(st, cur) ==
  [st EXCEPT !.has = @ \cup {"current_step"}, !.current_step = cur]

\* subscripting a base key that the state lacks raises KeyError
Strict(st, keys, res) ==
  IF keys \subseteq st.has THEN res ELSE Raise(st, "KeyError")

\* subscripting a schema field that the state lacks raises KeyError; a gate
\* builds the payload of interrupt() from the state before it suspends
Needs(g, st, fields, res) ==
  IF fields \subseteq Present(g, st) THEN res ELSE Raise(st, "KeyError")

\* An approval gate after its interrupt() call:
\*   decision = interrupt({...})
\*   if decision == "approve": return Command(goto=okGoto, update={...})
\*   else: return Command(goto="workflow_rejected", update={errors + [...]})
\* strictSteps tells whether the approve branch subscripts
\* state["steps_completed"] or uses state.get("steps_completed", []).
Gate(st, dec, step, cur, okGoto, strictSteps) ==
  IF dec = NoDecision THEN Interrupt(st)
  ELSE IF dec = "approve"
       THEN Strict(st, IF strictSteps THEN {"steps_completed"} ELSE {},
                   Update(Approved(st, step, cur), okGoto))
       ELSE Strict(st, {"errors"},
                   Update(Rejected(st, step), "workflow_rejected"))

\* a plain node: {**state, "steps_completed": ... + [step], "current_step": cur}
Plain(st, step, cur, goto, strictSteps) ==
  Strict(st, IF strictSteps THEN {"steps_completed"} ELSE {},
         Update(AppendStep(st, step, cur), goto))

\* ------------------------------------------------ hotel/o2c_graph.py
\* the payload of interrupt() reads guest_name, room_number, check_in_date,
\* check_out_date and reservation_id
hotel_check_in_guest(st, dec) ==
  Needs("hotel_o2c", st,
        {"guest_name", "room_number", "check_in_date", "check_out_date",
         "reservation_id"},
        Gate(st, dec, "check_in", "create_folio", "create_folio", TRUE))
hotel_create_folio(st) ==
  Needs("hotel_o2c", st, {"reservation_id"},
        Plain(st, "create_folio", "add_charges", "add_charges", TRUE))
hotel_add_charges(st) ==
  Plain(st, "add_charges", "check_out_guest", "check_out_guest", TRUE)
hotel_check_out_guest(st) ==
  Needs("hotel_o2c", st, {"guest_name"},
        Plain(st, "check_out", "generate_invoice", "generate_invoice", TRUE))
\* generate_invoice without its interrupt() call
hotel_generate_invoice_ungated(st, dec) ==
  Needs("hotel_o2c", st, {"guest_name", "room_number", "reservation_id"},
        Gate(st, "approve", "generate_invoice", "completed",
             "workflow_completed", TRUE))
\* the payload reads guest_name, folio_id (create_folio wrote it) and
\* room_number; the approve branch reads reservation_id
hotel_generate_invoice(st, dec) ==
  Needs("hotel_o2c", st,
        {"guest_name", "room_number"}
          \cup (IF dec = "approve" THEN {"reservation_id"} ELSE {}),
        Gate(st, dec, "generate_invoice", "completed", "workflow_completed",
             TRUE))
hotel_workflow_completed(st) ==
  Needs("hotel_o2c", st, {"reservation_id"},
        Update(Terminal(st, "completed"), END))
hotel_workflow_rejected(st) ==
  Strict(st, {"errors"}, Update(Terminal(st, "rejected"), END))

hotel_nodes ==
  {"check_in_guest", "create_folio", "add_charges", "check_out_guest",
   "generate_invoice", "workflow_completed", "workflow_rejected"}

hotel_node(n, st, dec) ==
  CASE n = "check_in_guest" -> hotel_check_in_guest(st, dec)
    [] n = "create_folio" -> hotel_create_folio(st)
    [] n = "add_charges" -> hotel_add_charges(st)
    [] n = "check_out_guest" -> hotel_check_out_guest(st)
    [] n = "generate_invoice" -> hotel_generate_invoice(st, dec)
    [] n = "workflow_completed" -> hotel_workflow_completed(st)
    [] n = "workflow_rejected" -> hotel_workflow_rejected(st)

\* ------------------------------------------ hospital/admissions_graph.py
hospital_create_patient_record(st) ==
  Needs("hospital_admissions", st, {"patient_name"},
        Plain(st, "create_patient", "schedule_admission", "schedule_admission",
              FALSE))
hospital_schedule_admission(st) ==
  Plain(st, "schedule_admission", "create_order_set", "create_order_set", FALSE)
\* protocol = state["clinical_protocol"] or ...  raises KeyError when the
\* optional field was left out of the initial state; get_protocol_orders and
\* the payload read primary_diagnosis and patient_name
hospital_create_order_set(st, dec) ==
  Needs("hospital_admissions", st,
        {"clinical_protocol", "primary_diagnosis", "patient_name"},
        Gate(st, dec, "create_orders", "create_encounter", "create_encounter",
             FALSE))
hospital_create_encounter(st) ==
  Plain(st, "create_encounter", "generate_invoice", "generate_invoice", FALSE)
hospital_generate_invoice(st, dec) ==
  Needs("hospital_admissions", st, {"patient_name"},
        Gate(st, dec, "generate_invoice", "completed", "workflow_completed",
             FALSE))
hospital_workflow_completed(st) == Update(Terminal(st, "completed"), END)
hospital_workflow_rejected(st) ==
  Strict(st, {"errors"}, Update(Terminal(st, "rejected"), END))

hospital_nodes ==
  {"create_patient", "schedule_admission", "create_order_set",
   "create_encounter", "generate_invoice", "workflow_completed",
   "workflow_rejected"}

hospital_node(n, st, dec) ==
  CASE n = "create_patient" -> hospital_create_patient_record(st)
    [] n = "schedule_admission" -> hospital_schedule_admission(st)
    [] n = "create_order_set" -> hospital_create_order_set(st, dec)
    [] n = "create_encounter" -> hospital_create_encounter(st)
    [] n = "generate_invoice" -> hospital_generate_invoice(st, dec)
    [] n = "workflow_completed" -> hospital_workflow_completed(st)
    [] n = "workflow_rejected" -> hospital_workflow_rejected(st)

\* -------------------------------------- manufacturing/production_graph.py
\* get_bom_materials + check_material_shortage: any(required - available > 0)
\* CHAIR-WOODEN: oak 2.5/unit of 20, screws 12/unit of 100, varnish 0.5/unit
\* of 3, sandpaper 2/unit of 50; any other item: 1/unit of 100
check_material_shortage(item, qty) ==
  IF item = "CHAIR-WOODEN"
    THEN \/ 5 * qty > 2 * 20
         \/ 12 * qty > 100
         \/ qty > 2 * 3
         \/ 2 * qty > 50
    ELSE qty > 100

mfg_check_material_availability(st) ==
  Needs("manufacturing_production", st,
        {"item_code", "qty_to_produce", "item_name"},
        Plain([st EXCEPT !.material_shortage =
                            check_material_shortage(st.order_items[1][1],
                                                    st.order_items[1][2])],
              "check_materials", "create_work_order", "create_work_order", TRUE))
mfg_create_work_order(st) ==
  Needs("manufacturing_production", st,
        {"item_code", "item_name", "qty_to_produce"},
        Plain(st, "create_work_order", "create_material_request",
              "create_material_request", TRUE))
\* the payload of the shortage gate reads item_code, item_name and
\* qty_to_produce
mfg_create_material_request(st, dec) ==
  IF ~st.material_shortage
    THEN Plain(st, "skip_material_request", "create_stock_entry",
               "create_stock_entry", TRUE)
    ELSE Needs("manufacturing_production", st,
               {"item_code", "item_name", "qty_to_produce"},
               Gate(st, dec, "create_material_request", "create_stock_entry",
                    "create_stock_entry", TRUE))
mfg_create_stock_entry(st) ==
  Plain(st, "create_stock_entry", "create_quality_inspection",
        "create_quality_inspection", TRUE)
mfg_create_quality_inspection(st, dec) ==
  Needs("manufacturing_production", st,
        {"item_code", "item_name", "qty_to_produce"},
        Gate(st, dec, "quality_inspection", "completed", "workflow_completed",
             TRUE))
mfg_workflow_completed(st) == Update(Terminal(st, "completed"), END)
mfg_workflow_rejected(st) ==
  Strict(st, {"errors"}, Update(Terminal(st, "rejected"), END))

mfg_nodes ==
  {"check_materials", "create_work_order", "create_material_request",
   "create_stock_entry", "create_quality_inspection", "workflow_completed",
   "workflow_rejected"}

mfg_node(n, st, dec) ==
  CASE n = "check_materials" -> mfg_check_material_availability(st)
    [] n = "create_work_order" -> mfg_create_work_order(st)
    [] n = "create_material_request" -> mfg_create_material_request(st, dec)
    [] n = "create_stock_entry" -> mfg_create_stock_entry(st)
    [] n = "create_quality_inspection" -> mfg_create_quality_inspection(st, dec)
    [] n = "workflow_completed" -> mfg_workflow_completed(st)
    [] n = "workflow_rejected" -> mfg_workflow_rejected(st)

\* ------------------------------------------- retail/fulfillment_graph.py
\* get_available_stock(item_code, warehouse):
\* stock_levels.get(item_code, 100.0)
stock_levels ==
  [item_code \in {"LAPTOP-DELL-I5", "MOUSE-WIRELESS", "KEYBOARD-MECH",
                  "MONITOR-24", "HDMI-CABLE"} |->
     CASE item_code = "LAPTOP-DELL-I5" -> 25
       [] item_code = "MOUSE-WIRELESS" -> 150
       [] item_code = "KEYBOARD-MECH" -> 45
       [] item_code = "MONITOR-24" -> 12
       [] item_code = "HDMI-CABLE" -> 200]

get_available_stock(item_code) ==
  IF item_code \in DOMAIN stock_levels THEN stock_levels[item_code]
  ELSE DEFAULT_STOCK

\* remaining < required * 0.2 or remaining < 10
retail_low_stock(item, qty) ==
  LET remaining == get_available_stock(item) - qty
  IN  5 * remaining < qty \/ remaining < 10

\* low_stock_items: the lines of the order that leave their item low
low_stock_items(order_items) ==
  SelectSeq(order_items, LAMBDA line : retail_low_stock(line[1], line[2]))

\* sum(item["qty"] * item.get("rate", 0.0) for item in state["order_items"])
RECURSIVE OrderTotal(_)
OrderTotal(order_items) ==
  IF order_items = << >> THEN 0
  ELSE Head(order_items)[2] * Head(order_items)[3] + OrderTotal(Tail(order_items))

\* for item in state["order_items"] ... state["warehouse"]
retail_check_inventory(st) ==
  Needs("retail_fulfillment", st, {"order_items", "warehouse"},
        Plain([st EXCEPT !.low_stock = low_stock_items(st.order_items) # << >>],
              "check_inventory", "create_sales_order", "create_sales_order",
              FALSE))
\* the order total is summed over order_items first; the branch without
\* approval reads customer_id, the payload of the gate customer_name,
\* customer_id and delivery_date
retail_create_sales_order(st, dec) ==
  LET order_total == OrderTotal(st.order_items)
      withTotal == [st EXCEPT !.order_total = order_total]
  IN  IF "order_items" \notin Present("retail_fulfillment", st)
        THEN Raise(st, "KeyError")
      ELSE IF ~st.low_stock /\ ~(order_total > LARGE_ORDER_THRESHOLD)
        THEN Needs("retail_fulfillment", st, {"customer_id"},
                   Plain(withTotal, "create_sales_order", "create_pick_list",
                         "create_pick_list", FALSE))
      ELSE Needs("retail_fulfillment", st,
                 {"customer_name", "customer_id", "delivery_date"},
                 IF dec = "approve"
                   THEN Gate(withTotal, dec, "create_sales_order",
                             "create_pick_list", "create_pick_list", FALSE)
                   ELSE Gate(st, dec, "create_sales_order", "create_pick_list",
                             "create_pick_list", FALSE))
retail_create_pick_list(st) ==
  Needs("retail_fulfillment", st, {"order_items"},
        Plain(st, "create_pick_list", "create_delivery_note",
              "create_delivery_note", FALSE))
retail_create_delivery_note(st) ==
  Needs("retail_fulfillment", st, {"delivery_date"},
        Plain(st, "create_delivery_note", "create_payment",
              "create_payment_entry", FALSE))
\* create_payment_entry without the auto-approval of small orders
retail_create_payment_entry_gated(st, dec) ==
  Needs("retail_fulfillment", st, {"customer_name", "customer_id"},
        Gate(st, dec, "create_payment", "completed", "workflow_completed",
             FALSE))
\* the payload of the gate reads customer_name and customer_id
retail_create_payment_entry(st, dec) ==
  IF st.order_total < AUTO_APPROVE_BELOW
    THEN Plain(st, "create_payment", "completed", "workflow_completed", FALSE)
    ELSE Needs("retail_fulfillment", st, {"customer_name", "customer_id"},
               Gate(st, dec, "create_payment", "completed",
                    "workflow_completed", FALSE))
retail_workflow_completed(st) == Update(Terminal(st, "completed"), END)
retail_workflow_rejected(st) ==
  Strict(st, {"errors"}, Update(Terminal(st, "rejected"), END))

retail_nodes ==
  {"check_inventory", "create_sales_order", "create_pick_list",
   "create_delivery_note", "create_payment_entry", "workflow_completed",
   "workflow_rejected"}

retail_node(n, st, dec) ==
  CASE n = "check_inventory" -> retail_check_inventory(st)
    [] n = "create_sales_order" -> retail_create_sales_order(st, dec)
    [] n = "create_pick_list" -> retail_create_pick_list(st)
    [] n = "create_delivery_note" -> retail_create_delivery_note(st)
    [] n = "create_payment_entry" -> retail_create_payment_entry(st, dec)
    [] n = "workflow_completed" -> retail_workflow_completed(st)
    [] n = "workflow_rejected" -> retail_workflow_rejected(st)

\* ---------------------------------------- education/admissions_graph.py
edu_review_application(st) ==
  Needs("education_admissions", st,
        {"applicant_name", "academic_score", "program_name"},
        Plain(st, "review_application", "schedule_interview",
              "schedule_interview", TRUE))
edu_schedule_interview(st, dec) ==
  Needs("education_admissions", st,
        {"program_name", "applicant_name", "applicant_email", "academic_score"},
        Gate(st, dec, "schedule_interview", "conduct_assessment",
             "conduct_assessment", TRUE))
edu_conduct_assessment(st) ==
  Needs("education_admissions", st, {"applicant_name", "academic_score"},
        Plain(st, "conduct_assessment", "make_admission_decision",
              "make_admission_decision", TRUE))
edu_make_admission_decision(st, dec) ==
  Needs("education_admissions", st,
        {"academic_score", "applicant_name", "program_name"},
        Gate(st, dec, "admission_decision", "enroll_student", "enroll_student",
             TRUE))
edu_enroll_student(st) ==
  Needs("education_admissions", st, {"applicant_name", "program_name"},
        Plain(st, "enroll_student", "workflow_completed", "workflow_completed",
              TRUE))
edu_workflow_completed(st) == Update(Terminal(st, "completed"), END)
edu_workflow_rejected(st) ==
  Strict(st, {"errors"}, Update(Terminal(st, "rejected"), END))

edu_nodes ==
  {"review_application", "schedule_interview", "conduct_assessment",
   "make_admission_decision", "enroll_student", "workflow_completed",
   "workflow_rejected"}

edu_node(n, st, dec) ==
  CASE n = "review_application" -> edu_review_application(st)
    [] n = "schedule_interview" -> edu_schedule_interview(st, dec)
    [] n = "conduct_assessment" -> edu_conduct_assessment(st)
    [] n = "make_admission_decision" -> edu_make_admission_decision(st, dec)
    [] n = "enroll_student" -> edu_enroll_student(st)
    [] n = "workflow_completed" -> edu_workflow_completed(st)
    [] n = "workflow_rejected" -> edu_workflow_rejected(st)

\* ------------------------------------------------- compiled graphs
\* builder.add_node(...): the nodes of each registered graph
NodesOf(g) ==
  CASE g = "hotel_o2c" -> hotel_nodes
    [] g = "hospital_admissions" -> hospital_nodes
    [] g = "manufacturing_production" -> mfg_nodes
    [] g = "retail_fulfillment" -> retail_nodes
    [] g = "education_admissions" -> edu_nodes

\* builder.add_edge(START, entry)
EntryOf(g) ==
  CASE g = "hotel_o2c" -> "check_in_guest"
    [] g = "hospital_admissions" -> "create_patient"
    [] g = "manufacturing_production" -> "check_materials"
    [] g = "retail_fulfillment" -> "check_inventory"
    [] g = "education_admissions" -> "review_application"

TerminalNodes == {"workflow_completed", "workflow_rejected"}

\* the runtime calling the body registered for node n of graph g; dec is the
\* value interrupt() returns (NoDecision: interrupt() suspends)
NodeBody(g, n, st, dec) ==
  CASE g = "hotel_o2c" -> hotel_node(n, st, dec)
    [] g = "hospital_admissions" -> hospital_node(n, st, dec)
    [] g = "manufacturing_production" -> mfg_node(n, st, dec)
    [] g = "retail_fulfillment" -> retail_node(n, st, dec)
    [] g = "education_admissions" -> edu_node(n, st, dec)

\* --------------------------------------------------- LangGraph runtime
\* graph.ainvoke(input, config) on a thread that already has a checkpoint:
\* the channels keep their values and the keys of the input overwrite them.
MergeInput(old, in) ==
  [in EXCEPT
     !.has = in.has \cup old.has,
     !.current_step =
        IF "current_step" \in in.has THEN in.current_step ELSE old.current_step,
     !.steps_completed =
        IF "steps_completed" \in in.has THEN in.steps_completed
        ELSE old.steps_completed,
     !.errors = IF "errors" \in in.has THEN in.errors ELSE old.errors,
     !.pending_approval =
        IF "pending_approval" \in in.has THEN in.pending_approval
        ELSE old.pending_approval,
     !.approval_decision =
        IF "approval_decision" \in in.has THEN in.approval_decision
        ELSE old.approval_decision,
     !.valid = in.valid \/ old.valid,
     !.protocol = in.protocol \/ old.protocol,
     !.low_stock = old.low_stock,
     !.order_total = old.order_total,
     !.material_shortage = old.material_shortage]

\* a checkpoint of a thread: the channel values, the node to dispatch next
\* and whether that node is suspended in interrupt()
NoCkpt == [exists |-> FALSE, st |-> EmptyState, next |-> END, interrupted |-> FALSE]
Ckpt(st, next, interrupted) ==
  [exists |-> TRUE, st |-> st, next |-> next, interrupted |-> interrupted]

\* One superstep of the runtime: the recursion limit is checked, then the
\* body of node `next` runs with the value interrupt() is to return.
DriveStep(g, st, next, ndisp, limit, dec) ==
  IF ndisp >= limit THEN Raise(st, "GraphRecursionError")
  ELSE NodeBody(g, next, st, dec)

\* the value ainvoke returns for a suspended run: the channel values and
\* the "__interrupt__" entry
WithInterrupt(st) == [st EXCEPT !.interrupt = TRUE]

\* graph.ainvoke(Command(resume=dec), config) run to its next boundary: the
\* run continues at the suspended node with dec as the value of interrupt()
\* and proceeds until it ends, suspends again or raises.
RECURSIVE RunFrom(_, _, _, _, _, _)
RunFrom(g, st, next, ndisp, limit, dec) ==
  LET o == DriveStep(g, st, next, ndisp, limit, dec)
  IN  IF o.kind = "raise" THEN [outcome |-> "raise", st |-> st]
      ELSE IF o.kind = "interrupt"
        THEN [outcome |-> "interrupt", st |-> WithInterrupt(st)]
      ELSE IF o.goto = END THEN [outcome |-> "end", st |-> o.st]
      ELSE RunFrom(g, o.st, o.goto, ndisp + 1, limit, NoDecision)

\* ------------------------------------------------------------ registry
\* every schema field taken as required, the optional marker ignored
required_fields_all(g) == Schema(g)

\* required_fields = [field for field, type_str in schema.items()
\*                    if "(optional)" not in type_str]
required_fields(g) == SelectSeq(Schema(g), LAMBDA e : ~e[3])

\* base_fields of validate_initial_state and the default each gets
ValidatorBaseFields ==
  {"messages", "session_id", "step_count", "current_node", "error"}
Absent == "absent"
\* null as the default of every base field
BaseDefaultNull(f) == "None"

BaseDefault(f) ==
  CASE f = "messages" -> "[]"
    [] f = "step_count" -> "0"
    [] OTHER -> "None"

\* An initial_state dict as the validator sees it: the schema fields it has,
\* those of them whose value fails the isinstance check of the field's type,
\* and the value (or Absent) under each of the validator's base fields.
Payload(present, illtyped, base) ==
  [present |-> present, illtyped |-> illtyped, base |-> base]

NoMessage == [kind |-> "none", fields |-> << >>]
\* f"Missing required fields: {', '.join(missing_fields)}"
MissingMessage(fields) == [kind |-> "missing", fields |-> fields]
\* f"Field '{field}' must be a string / numeric / a list, got ..."
TypeMessage(field) == [kind |-> "type", fields |-> << field >>]

\* WorkflowRegistry.validate_initial_state: the (is_valid, error_message)
\* pair and the dict as the call leaves it
validate_initial_state(g, p) ==
  LET missing_fields ==
        SelectSeq(required_fields(g), LAMBDA e : e[1] \notin p.present)
      badly == SelectSeq(Schema(g), LAMBDA e : e[1] \in p.present /\ e[1] \in p.illtyped)
      names(es) == [i \in 1..Len(es) |-> es[i][1]]
      filled == [f \in ValidatorBaseFields |->
                   IF p.base[f] = Absent THEN BaseDefault(f) ELSE p.base[f]]
  IN  IF Len(missing_fields) > 0
        THEN [ok |-> FALSE, error |-> MissingMessage(names(missing_fields)),
              state |-> p]
      ELSE IF Len(badly) > 0
        THEN [ok |-> FALSE, error |-> TypeMessage(badly[1][1]), state |-> p]
      ELSE [ok |-> TRUE, error |-> NoMessage,
            state |-> [p EXCEPT !.base = filled]]

NoVerdict == [ok |-> FALSE, error |-> NoMessage,
              state |-> Payload({}, {}, [f \in ValidatorBaseFields |-> Absent])]

\* The initial states handed to the validator: any subset of the schema's
\* fields, at most MaxIllTyped of them with a value of the wrong type, each
\* base field absent or supplied by the caller.
MaxIllTyped == 1
PayloadsOf(g) ==
  UNION { { Payload(present, illtyped, base) :
              illtyped \in {x \in SUBSET present : Cardinality(x) <= MaxIllTyped},
              base \in [ValidatorBaseFields -> {Absent, "given"}] } :
          present \in SUBSET SchemaFields(g) }

\* The dict a run state of the drives stands for as the validator sees it:
\* its schema fields and no validator base field.
PayloadOf(g, st) ==
  Payload(Present(g, st), {}, [f \in ValidatorBaseFields |-> Absent])

\* registry.validate_workflow_state(graph_name, initial_state)[0]
validate_workflow_state(g, st) == validate_initial_state(g, PayloadOf(g, st)).ok

\* WorkflowGraphMetadata.estimated_steps of the registered graphs
estimated_steps(g) == IF g = "hospital_admissions" THEN 6 ELSE 5

\* ------------------------------------------------------------- events
Event(type, step, st, pct) ==
  [type |-> type, step |-> step, state |-> st, percentage |-> pct]

NoStep == ""
NoPct == -1

\* The division and the product of _calculate_progress_percentage are done
\* in binary floating point: the quotient is rounded to a double before it
\* is multiplied by 100, and for the pairs below the product lands just
\* under the exact integer (23 / 5 * 100 = 459.99999999999994), so int()
\* gives one less than the exact quotient. The pairs are all of them for
\* current_step <= 100 and total_steps <= 30; the registry's estimates are
\* 5 and 6 and a run stops at the recursion limit.
FloatShortfall(current_step, total_steps) ==
  \/ /\ total_steps \in {5, 10, 20}
     /\ current_step \in {23, 41, 46, 51, 82, 87, 92, 97}
  \/ /\ total_steps \in {15, 30} /\ current_step = 69
  \/ /\ total_steps = 25 /\ current_step \in {29, 57, 58}

\* AGUIStreamAdapter._calculate_progress_percentage
\*   int((self.current_step / self.total_steps) * 100)
_calculate_progress_percentage(current_step, total_steps) ==
  IF total_steps = 0 THEN 0
  ELSE (current_step * 100) \div total_steps
         - (IF FloatShortfall(current_step, total_steps) THEN 1 ELSE 0)

\* What graph.astream yields for a compiled StateGraph, whose stream mode is
\* "updates" unless the caller asks otherwise: one dict per superstep,
\* {node name: what the node returned}.  `has` is the set of keys of the
\* dict, the node's name alone: "__current_node__", "current_step",
\* "pending_approval" and "errors" are keys of the update inside it.
UpdatesChunk(node, update) == [has |-> {node}] @@ update

\* state.get("__current_node__") or state.get("current_step")
CurrentNode(chunk) ==
  IF "current_step" \in chunk.has THEN chunk.current_step ELSE NoStep

\* The events the adapter emits for one item yielded by graph.astream:
\* step_complete when the item names a step, approval_required when
\* its pending_approval is set, workflow_error when its errors is not empty.
ChunkEvents(chunk, stepNo, total_steps) ==
  LET node == CurrentNode(chunk)
      e1 == IF node # NoStep
              THEN << Event("step_complete", node, chunk,
                            _calculate_progress_percentage(stepNo, total_steps)) >>
              ELSE << >>
      e2 == IF "pending_approval" \in chunk.has /\ chunk.pending_approval
              THEN << Event("approval_required", node, chunk, NoPct) >>
              ELSE << >>
      e3 == IF "errors" \in chunk.has /\ Len(chunk.errors) > 0
              THEN << Event("workflow_error", node, chunk, NoPct) >>
              ELSE << >>
  IN  e1 \o e2 \o e3

\* the adapter's loop breaks after a state with a non-empty errors list
ChunkBreaks(chunk) == "errors" \in chunk.has /\ Len(chunk.errors) > 0

\* ------------------------------------------------ results and responses
\* WorkflowExecutionResult
NoResult ==
  [done |-> FALSE, success |-> FALSE, interrupted |-> FALSE,
   final_state |-> EmptyState, error |-> "", detail |-> NoMessage,
   steps_completed |-> << >>]
Result(success, interrupted, final_state, error, steps) ==
  [done |-> TRUE, success |-> success, interrupted |-> interrupted,
   final_state |-> final_state, error |-> error, detail |-> NoMessage,
   steps_completed |-> steps]

\* WorkflowExecuteResponse, or the dict /resume answers with
NoResponse ==
  [status |-> "none", error |-> "", detail |-> NoMessage,
   final_state |-> EmptyState]
Response(status, error, final_state) ==
  [status |-> status, error |-> error, detail |-> NoMessage,
   final_state |-> final_state]

\* server.py execute_workflow_endpoint, stream = false: the JSON answer
\* built from the executor's result
execute_workflow_endpoint(result) ==
  IF ~result.success
    THEN [Response("error", result.error, EmptyState)
            EXCEPT !.detail = result.detail]
  ELSE IF result.interrupted THEN Response("paused", "", result.final_state)
  ELSE Response("completed", "", result.final_state)

\* server.py: the HTTP status of the answer to /execute. An unregistered
\* graph name raises HTTPException(404); every other answer, the JSON body
\* with status "error" and the event stream included, is an ordinary return.
HTTP_OK == 200
HTTP_NOT_FOUND == 404
status_code(graph_name) ==
  IF graph_name \notin GraphNames THEN HTTP_NOT_FOUND ELSE HTTP_OK

\* server.py stream_workflow_with_executor: the final event written after
\* the executor's own events
FinalEvent(result) ==
  IF result.interrupted
    THEN Event("workflow_paused", NoStep, result.final_state, NoPct)
  ELSE IF result.success
    THEN Event("workflow_complete", NoStep, result.final_state, NoPct)
  ELSE Event("workflow_error", NoStep, ErrorState(result.error), NoPct)

\* ------------------------------------------------------ RedisSaver store
\* One thread's keys. Checkpoint k is the one the k-th put saves: its id and
\* its ts are k, and the metadata saved with it is k. Every key carries the
\* time it has left to live, in clock ticks; a key with none left is gone.
MaxPuts == 3
TtlTicks == 2
CheckpointIds == 1..MaxPuts

\* one key for the whole thread, the checkpoint id left out
make_key_per_thread(checkpoint_id) == 1

\* _make_key(thread_id, checkpoint_id), for the one thread: the key
\* "{namespace}:checkpoint:{thread_id}:{checkpoint_id}", a key of its own
\* for every checkpoint id
_make_key(checkpoint_id) == checkpoint_id

\* a key Redis does not hold
NoKey == [ttl |-> 0, id |-> 0, ts |-> 0]
\* redis.set(checkpoint_key, checkpoint_data, ex=self.ttl_seconds)
Stored(id) == [ttl |-> TtlTicks, id |-> id, ts |-> id]

EmptyStore(extend_on_access) ==
  [checkpoint |-> [k \in CheckpointIds |-> NoKey],
   metadata |-> [ttl |-> 0, value |-> 0],
   extend_on_access |-> extend_on_access]

\* writer: n puts completed, `id` the last one begun. reader: the call, the
\* keys its scan returned, the key whose data it holds, the checkpoints and
\* metadata it has read so far; the puts completed and begun when the call
\* began, and whether the clock has ticked since the call began.
IdleWriter == [pc |-> "idle", n |-> 0, id |-> 0]
IdleReader ==
  [pc |-> "idle", op |-> "", arg |-> 0, keys |-> << >>, data |-> 0,
   checkpoints |-> << >>, metadata |-> << >>, since |-> 0, begun |-> 0,
   elapsed |-> FALSE]
IdleClients == [writer |-> IdleWriter, reader |-> IdleReader]

\* the orders in which a set of keys can be enumerated
Orders(S) ==
  {q \in [1..Cardinality(S) -> S] :
     \A i, j \in 1..Cardinality(S) : q[i] = q[j] => i = j}

\* redis.scan_iter(match=pattern): the thread's checkpoint keys that exist,
\* in whatever order the server's cursor walks them
scan_iter(store) ==
  Orders({k \in CheckpointIds : store.checkpoint[k].ttl > 0})

\* the first checkpoint read instead of the one with the greatest ts
LatestFirstRead(checkpoints) == checkpoints[1]

\* max(checkpoints, key=lambda c: c.get("ts", 0))
Latest(checkpoints) ==
  LET ts == {checkpoints[i] : i \in 1..Len(checkpoints)}
  IN  CHOOSE x \in ts : \A y \in ts : y <= x

\* redis.expire(key, self.ttl_seconds): restarts the time to live of a key
\* that exists, does nothing for one that does not
expire(entry) == IF entry.ttl > 0 THEN [entry EXCEPT !.ttl = TtlTicks] ELSE entry

\* ----------------------------------------------------- registry listing
\* WorkflowRegistry.WORKFLOWS: the registered names in the order of the dict
WORKFLOWS ==
  <<"hotel_o2c", "hospital_admissions", "manufacturing_production",
    "retail_fulfillment", "education_admissions">>

Industry(name) ==
  CASE name = "hotel_o2c" -> "hotel"
    [] name = "hospital_admissions" -> "hospital"
    [] name = "manufacturing_production" -> "manufacturing"
    [] name = "retail_fulfillment" -> "retail"
    [] name = "education_admissions" -> "education"

Tags(name) ==
  CASE name = "hotel_o2c" -> {"financial", "hospitality", "order-to-cash"}
    [] name = "hospital_admissions" -> {"clinical", "healthcare", "billing"}
    [] name = "manufacturing_production" -> {"production", "inventory", "quality"}
    [] name = "retail_fulfillment" -> {"retail", "fulfillment", "inventory"}
    [] name = "education_admissions" -> {"education", "admissions", "academic"}

\* WorkflowCapabilities of each descriptor; supports_parallel keeps its
\* default
Capabilities(name) ==
  [supports_interrupts |-> TRUE, supports_parallel |-> FALSE,
   requires_approval |-> TRUE, supports_rollback |-> FALSE,
   custom_capabilities |->
     CASE name = "hotel_o2c" -> {"folio_management", "charge_tracking"}
       [] name = "hospital_admissions" ->
            {"clinical_orders", "protocol_application", "encounter_billing"}
       [] name = "manufacturing_production" ->
            {"bom_explosion", "material_request", "quality_inspection"}
       [] name = "retail_fulfillment" ->
            {"inventory_validation", "pick_list_generation", "delivery_tracking"}
       [] name = "education_admissions" ->
            {"interview_scheduling", "assessment_tracking", "enrollment_automation"}]

\* The predicates callers filter capabilities with
CapabilityFilters ==
  {"requires_approval", "supports_parallel", "not supports_rollback",
   "clinical_orders in custom_capabilities"}
ApplyFilter(filter, cap) ==
  CASE filter = "requires_approval" -> cap.requires_approval
    [] filter = "supports_parallel" -> cap.supports_parallel
    [] filter = "not supports_rollback" -> ~cap.supports_rollback
    [] filter = "clinical_orders in custom_capabilities" ->
         "clinical_orders" \in cap.custom_capabilities

\* An optional argument: left at None (of a string or callable argument,
\* of a set argument), or passed with a value
None == [given |-> FALSE, value |-> ""]
NoTags == [given |-> FALSE, value |-> {}]
Passed(value) == [given |-> TRUE, value |-> value]
\* `if industry:` / `if capability_filter:` -- None and the empty string are
\* false
Truthy(arg) == arg.given /\ arg.value # ""
\* `if tags:` -- None and the empty set are false
TruthySet(arg) == arg.given /\ arg.value # {}

ListArgs ==
  [industry : {None} \cup {Passed(i) : i \in {"", "hotel", "hospital", "retail",
                                              "education", "banking"}},
   tags : {NoTags} \cup {Passed(t) : t \in {{}, {"financial"}, {"inventory"},
                                          {"billing", "retail"}, {"legal"}}},
   capability_filter : {None} \cup {Passed(f) : f \in CapabilityFilters}]

\* the tag filter keeping a workflow only when it has all of the tags
list_workflows_all_tags(args) ==
  LET by_industry ==
        IF Truthy(args.industry)
          THEN SelectSeq(WORKFLOWS, LAMBDA n : Industry(n) = args.industry.value)
        ELSE WORKFLOWS
      by_tags ==
        IF TruthySet(args.tags)
          THEN SelectSeq(by_industry, LAMBDA n : args.tags.value \subseteq Tags(n))
        ELSE by_industry
      by_capability ==
        IF Truthy(args.capability_filter)
          THEN SelectSeq(by_tags, LAMBDA n :
                 ApplyFilter(args.capability_filter.value, Capabilities(n)))
        ELSE by_tags
  IN  [workflows |-> by_capability, WORKFLOWS |-> WORKFLOWS]

\* WorkflowRegistry.list_workflows: the names of the returned dict in its
\* order, and the class table as the call leaves it (the filters work on a
\* copy)
list_workflows(args) ==
  LET by_industry ==
        IF Truthy(args.industry)
          THEN SelectSeq(WORKFLOWS, LAMBDA n : Industry(n) = args.industry.value)
        ELSE WORKFLOWS
      by_tags ==
        IF TruthySet(args.tags)
          THEN SelectSeq(by_industry, LAMBDA n : Tags(n) \cap args.tags.value # {})
        ELSE by_industry
      by_capability ==
        IF Truthy(args.capability_filter)
          THEN SelectSeq(by_tags, LAMBDA n :
                 ApplyFilter(args.capability_filter.value, Capabilities(n)))
        ELSE by_tags
  IN  [workflows |-> by_capability, WORKFLOWS |-> WORKFLOWS]

NotListing == [pc |-> "idle", args |-> [industry |-> None, tags |-> NoTags,
                                        capability_filter |-> None],
               workflows |-> << >>, WORKFLOWS |-> WORKFLOWS]

\* ------------------------------------------------------- registry cache
\* The names load_graph is called with: the registered ones and one that is
\* not. A compiled graph is identified by its name and the number of the
\* create_graph() run that built it; 0 stands for no graph.
LoadNames == GraphNames \cup {"no_such_graph"}
NoGraph == 0
\* self._loaded_graphs = {}
NotLoaded == [n \in GraphNames |-> NoGraph]
IdleLoad == [pc |-> "idle", graph_name |-> "", graph |-> NoGraph]

\* ---------------------------------------------------------------- state
\* ------------------------------------------------- nodes/approve.py
\* The value a resumed interrupt() returns: None, a dict whose keys may be
\* missing (Absent), or something that is not a dict.
RiskLevels == {"low", "medium", "high", "critical"}
ApprovedValues == {Absent, "True", "False", "None", "yes"}

ResumePayloads ==
  {[kind |-> "none", approved |-> Absent, comment |-> Absent, timestamp |-> Absent],
   [kind |-> "str", approved |-> Absent, comment |-> Absent, timestamp |-> Absent]}
  \cup [kind : {"dict"}, approved : ApprovedValues,
        comment : {Absent, "ok"}, timestamp : {Absent, "now"}]

\* dict.get(key, default)
GetOr(value, default) == IF value = Absent THEN default ELSE value

\* request_approval reading the approved key with True as default
ApprovalResultLenient(result) ==
  [raised |-> FALSE,
   approved |-> GetOr(result.approved, "True"),
   comment |-> GetOr(result.comment, "None"),
   timestamp |-> GetOr(result.timestamp, "")]

\* request_approval after interrupt() has returned `result`:
\*   if result is None: ApprovalResult(approved=False, comment="No approval
\*     data provided on resume", timestamp="")
\*   ApprovalResult(approved=result.get("approved", False),
\*     comment=result.get("comment"), timestamp=result.get("timestamp", ""))
\* a result without .get raises AttributeError
ApprovalResult(result) ==
  CASE result.kind = "none" ->
         [raised |-> FALSE, approved |-> "False",
          comment |-> "No approval data provided on resume", timestamp |-> ""]
    [] result.kind = "str" ->
         [raised |-> TRUE, approved |-> Absent, comment |-> Absent,
          timestamp |-> Absent]
    [] OTHER ->
         [raised |-> FALSE,
          approved |-> GetOr(result.approved, "False"),
          comment |-> GetOr(result.comment, "None"),
          timestamp |-> GetOr(result.timestamp, "")]

NoApproval ==
  [pc |-> "idle", risk_level |-> "low", emit_callback |-> FALSE, prompts |-> 0,
   payload |-> [kind |-> "none", approved |-> Absent, comment |-> Absent,
                timestamp |-> Absent],
   result |-> [raised |-> FALSE, approved |-> Absent, comment |-> Absent,
               timestamp |-> Absent]]

\* ------------------------------- redis_checkpointer.py, several threads
\* Keys and patterns as sequences of characters; the namespace and the
\* words "checkpoint" and "metadata" stand as one element each.
\* Thread ids: "a", "a:b" (the first followed by ':' and more), "b", "*".
KeyThreads == {<<"a">>, <<"a", ":", "b">>, <<"b">>, <<"*">>}
KeyCheckpoints == {<<"c1">>, <<"c2">>}

\* _make_key(thread_id, checkpoint_id):
\*   f"{namespace}:checkpoint:{thread_id}:{checkpoint_id}"
KeyOf(thread_id, checkpoint_id) ==
  <<"ns", ":", "checkpoint", ":">> \o thread_id \o <<":">> \o checkpoint_id

\* _make_key(thread_id): f"{namespace}:checkpoint:{thread_id}:*"
PatternOf(thread_id) ==
  <<"ns", ":", "checkpoint", ":">> \o thread_id \o <<":", "*">>

\* Redis glob matching (SCAN MATCH): '*' matches any run of characters,
\* every other character of these patterns matches itself
RECURSIVE GlobMatch(_, _)
GlobMatch(pattern, key) ==
  IF pattern = << >> THEN key = << >>
  ELSE IF Head(pattern) = "*"
    THEN \/ GlobMatch(Tail(pattern), key)
         \/ key # << >> /\ GlobMatch(pattern, Tail(key))
  ELSE key # << >> /\ Head(key) = Head(pattern)
         /\ GlobMatch(Tail(pattern), Tail(key))

\* redis.scan_iter(match=pattern) over the checkpoint entries of the store
ScanMatch(entries, pattern) ==
  {e \in entries : GlobMatch(pattern, KeyOf(e.thread, e.id))}

\* max(checkpoints, key=lambda c: c.get("ts", 0))
LatestOf(entries) == CHOOSE e \in entries : \A f \in entries : f.ts <= e.ts

\* a read of the keyspace: the keys SCAN found and GET has not read yet, the
\* checkpoints read so far, the checkpoints returned or yielded, and the
\* checkpoints whose key an EXPIRE of the read has restarted
NoRead ==
  [op |-> "none", pc |-> "idle", thread |-> <<"a">>, keys |-> {}, got |-> {},
   checkpoints |-> {}, extended |-> {}]
\* RedisSaver(extend_on_access=True) is the constructor's default
EmptyKeyspace ==
  [entries |-> {}, puts |-> 0, read |-> NoRead, extend_on_access |-> TRUE]

\* --------------------------------------------------- nodes/retry.py
\* Delays are counted in quarter seconds, so that the jitter factors 0.75
\* and 1.25 keep them whole: initial_delay 1.0 s = 4, 2.0 s = 8; max_delay
\* 3.0 s = 12, 60.0 s = 240.
MaxAttempts == 3

RetryConfigs ==
  [max_attempts : 0..MaxAttempts, initial_delay : {4, 8}, max_delay : {12, 240},
   backoff_factor : {1, 2}, jitter : BOOLEAN]

\* what one call of the operation does, as with_retry sees it: it returns,
\* raises an error should_retry accepts, or one should_retry declines
Outcomes == {"ok", "retryable", "fatal"}

\* jitter_factor = 0.75 + random.random() * 0.5, in quarters
JitterFactors(jitter) == IF jitter THEN {3, 4, 5} ELSE {4}

\* the delay before the next attempt without the max_delay cap
RetryDelayUncapped(current_delay, max_delay) == current_delay

\* delay = min(current_delay, cfg["max_delay"])
RetryDelay(current_delay, max_delay) ==
  IF current_delay < max_delay THEN current_delay ELSE max_delay

\* with_retry before its loop: retry_state with attempt = 0, total_delay = 0
\* and current_delay = initial_delay; `outcomes`, `waits` record what the
\* operation did at each call and the delay computed before each sleep
NoRetry ==
  [pc |-> "idle",
   cfg |-> [max_attempts |-> 0, initial_delay |-> 4, max_delay |-> 12,
            backoff_factor |-> 1, jitter |-> FALSE],
   attempt |-> 0, current_delay |-> 0, total_delay |-> 0,
   success |-> FALSE, error |-> "",
   outcomes |-> << >>, waits |-> << >>, slept |-> << >>]

\* ---------------------------------------------------- SessionManager data
\* time is counted in ticks of ten minutes
MaxClock == 4
MaxMessages == 1
MaxApprovals == 1

\* SessionManager(session_timeout_minutes = 30)
session_timeout == 3
\* create_approval_request(..., timeout_minutes = 10)
timeout_minutes == 1

\* the one id create_session hands out, and an id it never handed out
SessionIds == {"s1"}
LookupIds == {"s1", "s2"}
ResolveDecisions == {"approved", "rejected"}

NoSessions == [sid \in {} |-> 0]
NoCall == [ok |-> FALSE]
NoSm == [now |-> 0, sessions |-> NoSessions, issued |-> {}, last |-> NoCall]


\* ----------------------------------------------------- bulk_update data
MaxBatch == 3

\* the documents the batch may name and what the backend holds for each:
\* updatable, absent, not writable by the user, lacking the field, or
\* failing validation on save
DocNames == {"D1", "D2"}
DocKinds == {"ok", "missing", "no_permission", "no_field", "save_error"}
RECURSIVE BatchesOf(_)
BatchesOf(n) ==
  IF n = 0 THEN {<< >>}
  ELSE BatchesOf(n - 1) \cup
       {Append(b, d) : b \in {c \in BatchesOf(n - 1) : Len(c) = n - 1}, d \in DocNames}

NoBulk ==
  [pc |-> "idle", docs |-> << >>, kinds |-> [d \in DocNames |-> "ok"],
   committed |-> [d \in DocNames |-> "old"],
   working |-> [d \in DocNames |-> "old"],
   results |-> << >>, updated_count |-> 0, failed_count |-> 0,
   response |-> [success |-> FALSE, updated |-> 0, failed |-> 0, results |-> << >>]]

\* -------------------------------------------------- CoagentSession data
MaxApprovalIds == 2

\* the sessions under test (each CoagentSession has its own _pending)
Sessions == {"front_desk", "manager_001"}

\* the prompts of the integration tests, and one the shim does not know
Prompts ==
  {"What rooms are available tonight for 2 guests?",
   "Create a reservation for Room 101, check-in tomorrow, 3 nights",
   "Check inventory for this order",
   "Create delivery note and pack order",
   "Create sepsis protocol orders",
   "Schedule interviews for shortlisted candidates this week",
   "Check material availability for this production run",
   "Create purchase requisitions for missing materials",
   "Hello"}

\* the substrings query() looks for that prompt.lower() contains
Contains(prompt) ==
  IF prompt = "What rooms are available tonight for 2 guests?"
    THEN {"available", "room"}
  ELSE IF prompt = "Create a reservation for Room 101, check-in tomorrow, 3 nights"
    THEN {"reservation", "room", "create a reservation"}
  ELSE IF prompt = "Check inventory for this order"
    THEN {"check inventory"}
  ELSE IF prompt = "Create delivery note and pack order"
    THEN {"delivery note", "pack order"}
  ELSE IF prompt = "Create sepsis protocol orders"
    THEN {"sepsis", "orders"}
  ELSE IF prompt = "Schedule interviews for shortlisted candidates this week"
    THEN {"interview", "interviews"}
  ELSE IF prompt = "Check material availability for this production run"
    THEN {"check material"}
  ELSE IF prompt = "Create purchase requisitions for missing materials"
    THEN {"requisition", "purchase requisitions", "materials"}
  ELSE {}

\* no approval id: the response has no approval_id key
NoApprovalId == 0

NoCoagentCall ==
  [op |-> "", session |-> "", prompt |-> "", requires_approval |-> FALSE,
   approval_id |-> NoApprovalId, status |-> "", error |-> "", result |-> ""]

NoCoagent ==
  [pending |-> [s \in Sessions |-> [id \in {} |-> ""]],
   uuids |-> 0,
   issued |-> [s \in Sessions |-> {}],
   approved |-> [s \in Sessions |-> {}],
   performed |-> {},
   last |-> NoCoagentCall]

\* ---------------------------------------------------- hotel_o2c_graph data
\* the optional fields of HotelO2CState an initial state may carry beside
\* check_in, check_out and guest_count; a field is absent, None or set
O2cErrors == {Absent, "None", "Gateway timeout"}
O2cFlags == {Absent, "False", "True"}
O2cReservations == {Absent, "None", "RES-OLD"}
O2cStatuses == {Absent, "pending", "failed"}

\* the rooms check_availability's placeholder finds
PlaceholderRooms == <<"101", "102">>

\* state.get(key) and `not state[key]`: absent, None and False are falsy
O2cSet(value) == value \notin {Absent, "None", "False"}

\* available_rooms is a list of rooms; the key missing from the state and
\* the value None are the lists that hold nothing but that marker
AbsentRooms == <<Absent>>
NoneRooms == <<"None">>
O2cRooms == {AbsentRooms, NoneRooms, << >>, PlaceholderRooms}

\* state.get("available_rooms") and `not state["available_rooms"]`: absent,
\* None and the empty list are falsy
O2cFound(rooms) == rooms \notin {AbsentRooms, NoneRooms, << >>}

\* an initial state with check_in, check_out and guest_count only
NoO2cState ==
  [error |-> Absent, available_rooms |-> AbsentRooms, selected_room |-> Absent,
   reservation_id |-> Absent, payment_confirmed |-> Absent,
   confirmation_sent |-> Absent, status |-> Absent]

\* a run of hotel_o2c_graph: `stream` tells an adapter iterates it, with
\* its total_steps (0 stands for None), its current_step and the events it
\* has yielded; ndisp counts the nodes that have returned and node is the
\* last of them
NoO2c ==
  [pc |-> "idle", input |-> NoO2cState, state |-> NoO2cState, did |-> << >>,
   stream |-> FALSE, total_steps |-> 0, a_current_step |-> 0,
   events |-> << >>, ndisp |-> 0, node |-> ""]

VARIABLES
  graph,    \* the registered graph the behaviour's requests name
  input,    \* the valid initial state the caller builds for it
  serial,   \* TRUE: one request at a time; FALSE: requests overlap
  run,      \* per request slot: the request, its drive and its outputs
  ckpt,     \* the compiled graph's checkpointer: thread id -> checkpoint
  nreq,     \* requests started so far
  redis,    \* the Redis keys of RedisSaver: checkpoint keys and metadata key
  client,   \* the RedisSaver calls in progress: one writer, one reader
  loaded_graphs,  \* the registry's cache: graph name -> compiled graph
  created,  \* per graph name, how often its create_graph() has run
  loading,  \* per caller: the load_graph call in progress
  listing,  \* the list_workflows call: its arguments and what it returned
  approval, \* a node calling request_approval: the call and its result
  retry,    \* a with_retry call: its configuration, loop state and result
  keyspace, \* checkpoints of several threads in one Redis, and the last read
  sm,       \* the SessionManager: its clock, its sessions and the last call
  bulk,     \* a bulk_update call: its batch, the database and its response
  coagent,  \* the CoagentSessions: pending approvals, ids issued, last call
  o2c       \* a run of hotel_o2c_graph: next node, state, what the nodes did

\* the state of the helpers that run beside the workflow service
\* the state of the application-side helpers
apps == <<sm, bulk, coagent, o2c>>

AppsIdle ==
  /\ sm = NoSm
  /\ bulk = NoBulk
  /\ coagent = NoCoagent
  /\ o2c = NoO2c
  /\ o2c = NoO2c
  /\ coagent = NoCoagent

aux == <<approval, retry, keyspace, apps>>

AuxIdle ==
  /\ approval = NoApproval
  /\ retry = NoRetry
  /\ keyspace = EmptyKeyspace
  /\ AppsIdle

\* the building blocks of the step kit
helpers == <<approval, retry, keyspace>>

\* the state of the workflow service itself
service == <<graph, input, serial, run, ckpt, nreq, redis, client,
             loaded_graphs, created, loading, listing>>

vars == <<service, aux>>

FreshId(r) == IF r = "r1" THEN "uuid-r1" ELSE "uuid-r2"
AllThreads == ThreadIds \cup {FreshId(r) : r \in Slots}

Idle ==
  [pc |-> "idle", api |-> "", op |-> "", emit |-> FALSE, tid |-> NoThread,
   ckid |-> NoThread, cfgLimit |-> 0, limit |-> 0, input |-> EmptyState,
   dec |-> NoDecision, st |-> EmptyState, next |-> END, ndisp |-> 0,
   resumeVal |-> NoDecision, sink |-> << >>, http |-> << >>,
   last_emitted |-> 0, unwritten_at_done |-> 0, closed |-> FALSE,
   total_steps |-> 0, a_current_step |-> 0, a_steps |-> << >>,
   a_ckpt |-> << >>, pend |-> << >>, ends |-> "loop",
   chunk |-> EmptyState, task |-> FALSE,
   result |-> NoResult, response |-> NoResponse,
   verdict |-> NoVerdict, from |-> NoCkpt, cancel |-> FALSE]

ActiveSlots == IF serial THEN {"r1"} ELSE Slots

\* the graphs and inputs of behaviours in which requests overlap
ConcGraphs == {"hotel_o2c", "retail_fulfillment"}

Init ==
  /\ serial = TRUE
  /\ graph \in GraphNames
  /\ input \in ValidStatesOf(graph)
  /\ run = [r \in Slots |-> Idle]
  /\ ckpt = [t \in AllThreads |-> NoCkpt]
  /\ nreq = 0
  /\ redis = EmptyStore(TRUE)
  /\ client = IdleClients
  /\ loaded_graphs = NotLoaded
  /\ created = [n \in GraphNames |-> 0]
  /\ loading = [c \in Slots |-> IdleLoad]
  /\ listing = NotListing
  /\ AuxIdle

InitConc ==
  /\ serial = FALSE
  /\ graph \in ConcGraphs
  /\ input \in {s \in ValidStatesOf(graph) :
                  s.has = BaseKeys /\ ~s.pending_approval}
  /\ run = [r \in Slots |-> Idle]
  /\ ckpt = [t \in AllThreads |-> NoCkpt]
  /\ nreq = 0
  /\ redis = EmptyStore(TRUE)
  /\ client = IdleClients
  /\ loaded_graphs = NotLoaded
  /\ created = [n \in GraphNames |-> 0]
  /\ loading = [c \in Slots |-> IdleLoad]
  /\ listing = NotListing
  /\ AuxIdle

\* behaviours that call the registry's validator on the caller's dict
InitValidate ==
  /\ serial = TRUE
  /\ graph \in GraphNames
  /\ input \in PayloadsOf(graph)
  /\ run = [r \in Slots |-> Idle]
  /\ ckpt = [t \in AllThreads |-> NoCkpt]
  /\ nreq = 0
  /\ redis = EmptyStore(TRUE)
  /\ client = IdleClients
  /\ loaded_graphs = NotLoaded
  /\ created = [n \in GraphNames |-> 0]
  /\ loading = [c \in Slots |-> IdleLoad]
  /\ listing = NotListing
  /\ AuxIdle

CanStart(r) ==
  /\ r \in ActiveSlots
  /\ run[r].pc = "idle"
  /\ nreq < MaxRequests

\* ------------------------------------------------------------- requests
\* How a finished drive is reported, by entry point.
\*  executor.execute: WorkflowExecutionResult(success=True, final_state=...,
\*     interrupted=result.get("interrupted", False))
\*  executor.resume: the same without the interrupted argument
\*  except Exception: success=False, final_state=initial_state, error=str(e)
\*  graph.ainvoke called directly: the returned channel values
\*  execute_workflow_with_streaming: the dict {final_state, steps_completed,
\*     checkpoints}, which has no interrupted entry
\*  SSEWorkflowStreamer.stream_workflow: a generator, which returns nothing
Returned(rr, fs, steps, interrupted) ==
  LET res == IF rr.api = "graph" THEN Result(TRUE, fs.interrupt, fs, "", << >>)
             ELSE IF rr.api = "sse" THEN NoResult
             ELSE IF rr.op = "resume" \/ rr.api = "adapter"
               THEN Result(TRUE, FALSE, fs, "", steps)
             ELSE Result(TRUE, interrupted, fs, "", steps)
  IN  [rr EXCEPT !.result = res]

Failed(rr, err) ==
  [rr EXCEPT !.result = Result(FALSE, FALSE, rr.input, err, << >>)]

\* executor.execute, is_valid false: success=False, final_state=initial_state,
\* error=f"State validation failed: {error_msg}"
Invalid(rr, error_msg) ==
  [rr EXCEPT !.result = [Result(FALSE, FALSE, rr.input,
                                "State validation failed", << >>)
                           EXCEPT !.detail = error_msg]]

\* after the executor (or the graph call) has returned: the streaming
\* endpoint still has to drain its buffer, unless the client has closed the
\* response; the JSON endpoint answers at once
Answer(rr) ==
  IF rr.api = "http" /\ rr.emit
    THEN [rr EXCEPT !.pc = IF rr.closed THEN "responded" ELSE "task_done",
                    !.unwritten_at_done = Len(rr.sink) - rr.last_emitted]
  ELSE IF rr.api = "http"
    THEN [rr EXCEPT !.pc = "responded",
                    !.response = execute_workflow_endpoint(rr.result)]
  ELSE [rr EXCEPT !.pc = "responded"]

\* execute with the validation step left out
BeginNoValidation(rr) ==
  IF rr.emit
    THEN [rr EXCEPT !.pc = "streaming",
                    !.st = rr.input,
                    !.next = EntryOf(graph),
                    !.limit = DEFAULT_RECURSION_LIMIT,
                    !.total_steps = estimated_steps(graph),
                    !.sink = << Event("workflow_start", NoStep, rr.input, NoPct) >>]
  ELSE [rr EXCEPT !.pc = "driving",
                  !.st = IF ckpt[rr.tid].exists /\ rr.tid \in ThreadIds
                           THEN MergeInput(ckpt[rr.tid].st, rr.input)
                           ELSE rr.input,
                  !.next = EntryOf(graph),
                  !.limit = rr.cfgLimit]

\* WorkflowExecutor.execute up to its first await: validation, then either
\* the adapter (emit_agui_events and emit_fn) which emits workflow_start, or
\* _execute_basic whose config carries the recursion limit and a thread id.
Begin(rr) ==
  IF rr.op = "execute" /\ rr.api # "graph" /\ ~validate_workflow_state(graph, rr.input)
    THEN Answer(Invalid(rr, validate_initial_state(graph, PayloadOf(graph, rr.input)).error))
  ELSE IF rr.emit
    THEN [rr EXCEPT !.pc = "streaming",
                    !.st = rr.input,
                    !.next = EntryOf(graph),
                    !.limit = DEFAULT_RECURSION_LIMIT,
                    !.total_steps = estimated_steps(graph),
                    !.sink = << Event("workflow_start", NoStep, rr.input, NoPct) >>]
  ELSE [rr EXCEPT !.pc = "driving",
                  !.st = IF ckpt[rr.tid].exists /\ rr.tid \in ThreadIds
                           THEN MergeInput(ckpt[rr.tid].st, rr.input)
                           ELSE rr.input,
                  !.next = EntryOf(graph),
                  !.limit = rr.cfgLimit]

\* load_workflow_graph(graph_name) called inside a request: one call of
\* registry.load_graph, which returns the cached graph or, on the first
\* call for the name, imports the module, runs its create_graph() and
\* stores the result in _loaded_graphs
LoadGraph(does) ==
  LET first == does /\ loaded_graphs[graph] = NoGraph
  IN  /\ loaded_graphs' = IF first
                            THEN [loaded_graphs EXCEPT ![graph] = created[graph] + 1]
                            ELSE loaded_graphs
      /\ created' = IF first THEN [created EXCEPT ![graph] = @ + 1] ELSE created

\* whether the request gets as far as load_workflow_graph: execute returns
\* before it when the validation fails, resume does not validate
Loads(rr) ==
  /\ rr.api # "graph"
  /\ rr.op = "resume" \/ validate_workflow_state(graph, rr.input)

Started(r, rr) ==
  /\ run' = [run EXCEPT ![r] = Begin(rr)]
  /\ ckpt' = IF rr.tid \in ThreadIds \/ rr.tid = NoThread THEN ckpt
             ELSE [ckpt EXCEPT ![rr.tid] = NoCkpt]
  /\ nreq' = nreq + 1
  /\ LoadGraph(Loads(rr))
  /\ UNCHANGED <<graph, input, serial, redis, client, loading, listing, aux>>

\* stream = true: the endpoint builds StreamingResponse over the generator
\* stream_workflow_with_executor(...) and returns; no line of the generator
\* has run
Accepted(r, rr) ==
  /\ run' = [run EXCEPT ![r] = [rr EXCEPT !.pc = "accepted"]]
  /\ ckpt' = IF rr.tid \in ThreadIds \/ rr.tid = NoThread THEN ckpt
             ELSE [ckpt EXCEPT ![rr.tid] = NoCkpt]
  /\ nreq' = nreq + 1
  /\ UNCHANGED <<graph, input, serial, redis, client, loaded_graphs, created,
                 loading, listing, aux>>

\* POST /execute  (server.py execute_workflow_endpoint)
HttpExecute(r, thread_id, stream, valid) ==
  LET rr == [Idle EXCEPT
        !.api = "http", !.op = "execute", !.emit = stream,
        !.tid = IF thread_id = NoThread THEN FreshId(r) ELSE thread_id,
        !.cfgLimit = SERVER_RECURSION_LIMIT,
        !.input = [input EXCEPT !.valid = valid],
        !.from = IF thread_id = NoThread THEN NoCkpt ELSE ckpt[thread_id]]
  IN
  /\ CanStart(r)
  /\ IF stream THEN Accepted(r, rr) ELSE Started(r, rr)

\* The response body is iterated for the first time: the generator creates
\* the executor and the task of executor.execute(...) and suspends in
\* asyncio.sleep (server.py:288-299). The task has not run yet.
HttpStreamOpen(r) ==
  /\ run[r].pc = "accepted"
  /\ run' = [run EXCEPT ![r].pc = "created", ![r].task = TRUE]
  /\ UNCHANGED <<graph, input, serial, redis, client, loaded_graphs, created,
                 loading, listing, aux, ckpt, nreq>>

\* The task of executor.execute(...) runs for the first time, up to its
\* first await: validation, load_workflow_graph, workflow_start.
HttpTaskStart(r) ==
  /\ run[r].pc = "created"
  /\ run' = [run EXCEPT ![r] = Begin(run[r])]
  /\ LoadGraph(Loads(run[r]))
  /\ UNCHANGED <<graph, input, serial, redis, client, loading, listing, aux,
                 ckpt, nreq>>

\* POST /resume  (server.py resume_workflow): answers with instructions
HttpResume(r, thread_id, decision) ==
  /\ CanStart(r)
  /\ run' = [run EXCEPT ![r] =
        [Idle EXCEPT !.pc = "responded", !.api = "http", !.op = "resume",
                     !.tid = thread_id, !.ckid = thread_id, !.dec = decision,
                     !.from = ckpt[thread_id],
                     !.response = Response("message", "", EmptyState)]]
  /\ nreq' = nreq + 1
  /\ UNCHANGED <<graph, input, serial, redis, client, loaded_graphs, created, loading, listing, aux, ckpt>>

\* WorkflowExecutor(graph_name, config).execute(initial_state, emit_fn)
ExecutorExecute(r, thread_id, emit, limit, valid) ==
  /\ CanStart(r)
  /\ Started(r, [Idle EXCEPT
        !.api = "executor", !.op = "execute", !.emit = emit,
        !.tid = IF thread_id = NoThread THEN FreshId(r) ELSE thread_id,
        !.cfgLimit = limit,
        !.input = [input EXCEPT !.valid = valid],
        !.from = IF thread_id = NoThread THEN NoCkpt ELSE ckpt[thread_id]])

\* WorkflowExecutor(graph_name, config).resume(checkpoint_id, resume_state,
\* emit_fn): the drive is configured from the executor's own config, so its
\* thread id is config.thread_id or a fresh one, and its input is
\* resume_state ({} when none is given)
ExecutorResume(r, checkpoint_id, thread_id, emit, withState) ==
  /\ CanStart(r)
  /\ Started(r, [Idle EXCEPT
        !.api = "executor", !.op = "resume", !.emit = emit,
        !.tid = IF thread_id = NoThread THEN FreshId(r) ELSE thread_id,
        !.ckid = checkpoint_id,
        !.cfgLimit = DEFAULT_RECURSION_LIMIT,
        !.input = IF withState THEN input ELSE EmptyState,
        !.from = ckpt[checkpoint_id]])

\* graph.ainvoke(initial_state, config)  (test_workflow of the graph modules)
GraphInvoke(r, thread_id) ==
  /\ CanStart(r)
  /\ Started(r, [Idle EXCEPT
        !.api = "graph", !.op = "execute", !.tid = thread_id,
        !.cfgLimit = DEFAULT_RECURSION_LIMIT,
        !.input = input,
        !.from = ckpt[thread_id]])

\* graph.ainvoke(Command(resume=decision), config) on a suspended thread
GraphResume(r, thread_id, decision) ==
  /\ CanStart(r)
  /\ ckpt[thread_id].exists /\ ckpt[thread_id].interrupted
  /\ run' = [run EXCEPT ![r] =
        [Idle EXCEPT !.pc = "driving", !.api = "graph", !.op = "resume",
                     !.tid = thread_id, !.ckid = thread_id, !.dec = decision,
                     !.limit = DEFAULT_RECURSION_LIMIT,
                     !.cfgLimit = DEFAULT_RECURSION_LIMIT,
                     !.input = ckpt[thread_id].st,
                     !.st = ckpt[thread_id].st,
                     !.next = ckpt[thread_id].next,
                     !.resumeVal = decision,
                     !.from = ckpt[thread_id]]]
  /\ nreq' = nreq + 1
  /\ UNCHANGED <<graph, input, serial, redis, client, loaded_graphs, created, loading, listing, aux, ckpt>>

\* ------------------------------------------------------ non-streaming drive
\* _execute_basic: final_state = await graph.ainvoke(initial_state, config),
\* one superstep per step of the model.  The runtime writes a checkpoint
\* under config["configurable"]["thread_id"] after every superstep; a
\* suspended run makes ainvoke return the channel values with "__interrupt__";
\* an exception leaves the last checkpoint in place.
Superstep(rr) ==
  IF rr.input.empty /\ rr.ndisp = 0 THEN Raise(rr.st, "EmptyInputError")
  ELSE DriveStep(graph, rr.st, rr.next, rr.ndisp, rr.limit, rr.resumeVal)

Dispatch(r) ==
  LET rr == run[r]
      o == Superstep(rr)
  IN
  /\ rr.pc = "driving"
  /\ CASE o.kind = "raise" ->
            /\ run' = [run EXCEPT ![r] = Answer(Failed(rr, o.err))]
            /\ ckpt' = ckpt
       [] o.kind = "interrupt" ->
            /\ run' = [run EXCEPT ![r] =
                  Answer(Returned(rr, WithInterrupt(rr.st), << >>, FALSE))]
            /\ ckpt' = [ckpt EXCEPT ![rr.tid] = Ckpt(rr.st, rr.next, TRUE)]
       [] o.kind = "update" /\ o.goto = END ->
            /\ run' = [run EXCEPT ![r] =
                  Answer(Returned([rr EXCEPT !.st = o.st, !.next = END,
                                             !.ndisp = @ + 1],
                                  o.st, << >>, FALSE))]
            /\ ckpt' = [ckpt EXCEPT ![rr.tid] = Ckpt(o.st, END, FALSE)]
       [] OTHER ->
            /\ run' = [run EXCEPT ![r] =
                  [rr EXCEPT !.st = o.st, !.next = o.goto, !.ndisp = @ + 1,
                             !.resumeVal = NoDecision]]
            /\ ckpt' = [ckpt EXCEPT ![rr.tid] = Ckpt(o.st, o.goto, FALSE)]
  /\ UNCHANGED <<graph, input, serial, redis, client, loaded_graphs, created, loading, listing, aux, nreq>>

\* ---------------------------------------------------------- streaming drive
\* _execute_with_streaming over AGUIStreamAdapter.stream_workflow_execution.
\* The adapter calls graph.astream(initial_state) with no config: neither the
\* configured recursion limit nor a thread id reaches the runtime.  Every
\* registered graph is compiled with a checkpointer (create_graph:
\* builder.compile(checkpointer=InMemorySaver())), and the runtime refuses a
\* call on such a graph that names no thread: ValueError at the first
\* iteration, before the input is read and before any node runs.

\* the item astream yields when a node suspends: the "__interrupt__" entry
\* alone, a tuple of the runtime's Interrupt objects
InterruptChunk == [ErrorState("") EXCEPT !.interrupt = TRUE]

\* SSEWorkflowStreamer.format_sse_event(event): json.dumps of the event's
\* data raises TypeError when the state holds Interrupt objects, which the
\* JSON encoder does not serialise
format_sse_event_raises(ev) == ev.state.interrupt

\* _execute_with_streaming: interrupted is set by an approval_required event
SawApproval(sink) ==
  \E i \in 1..Len(sink) : sink[i].type = "approval_required"

\* final_state or adapter.get_final_state() or initial_state, when no
\* workflow_complete event came
FallbackState(rr) ==
  IF Len(rr.a_ckpt) > 0 THEN rr.a_ckpt[Len(rr.a_ckpt)] ELSE rr.input

\* an adapter that goes on to workflow_complete after the workflow_error of
\* its except clause
StreamRaisedThenComplete(rr, err) ==
  LET sink2 == rr.sink \o
                 << Event("workflow_error", NoStep, ErrorState(err), NoPct),
                    Event("workflow_complete", NoStep, rr.input, 100) >>
      rr2 == [rr EXCEPT !.sink = sink2]
  IN  Answer(Returned(rr2, rr.input, rr.a_steps, SawApproval(sink2)))

\* except Exception in the adapter: workflow_error {"error": str(e)}, then
\* the generator ends and the executor builds a success result
StreamRaised(rr, err) ==
  LET sink2 == Append(rr.sink, Event("workflow_error", NoStep, ErrorState(err), NoPct))
      rr2 == [rr EXCEPT !.sink = sink2]
  IN  Answer(Returned(rr2, FallbackState(rr), rr.a_steps, SawApproval(sink2)))

\* A generator handed to its consumer (SSEWorkflowStreamer.stream_workflow,
\* server.stream_workflow_execution) is suspended at every yield until the
\* consumer asks for the next message. Yielded(rr, ev, rest, ends): ev has
\* gone to the consumer, rest are the events the code yields next for the
\* same item, and `ends` tells what follows them: "loop" the next item of
\* astream is awaited, "stop" the generator returns.
Yielded(rr, ev, rest, ends) ==
  [rr EXCEPT !.pc = "yielded", !.sink = Append(@, ev), !.pend = rest,
             !.ends = ends]

\* an exception inside the consumer's generator: workflow_error
\* {"error": str(e)} is yielded, then the generator returns
GenRaised(rr, err) ==
  Yielded(rr, Event("workflow_error", NoStep, ErrorState(err), NoPct), << >>,
          "stop")

\* One resumption of the task that iterates the adapter: it awaits the first
\* item of graph.astream(initial_state), the runtime refuses the call and the
\* adapter's except clause emits workflow_error. Under the executor and
\* under execute_workflow_with_streaming the generator then ends and the
\* caller builds its result; under SSEWorkflowStreamer the event is yielded
\* to the consumer.
StreamStep(r) ==
  LET rr == run[r]
  IN
  /\ rr.pc = "streaming"
  /\ run' = [run EXCEPT ![r] =
        IF rr.api = "sse" THEN GenRaised(rr, "ValueError")
        ELSE StreamRaised(rr, "ValueError")]
  /\ UNCHANGED <<graph, input, serial, redis, client, loaded_graphs, created, loading, listing, aux, ckpt, nreq>>

\* The adapter driven without the executor: no validation of the input, no
\* thread id, and the estimated step count only when the caller gives it
\* (0 stands for total_steps=None).
AdapterStart(rr, api, initial_state, total_steps) ==
  [rr EXCEPT !.pc = IF api = "sse" THEN "new" ELSE "streaming",
             !.api = api, !.op = "execute", !.emit = TRUE,
             !.input = initial_state, !.st = initial_state,
             !.next = EntryOf(graph),
             !.limit = DEFAULT_RECURSION_LIMIT,
             !.cfgLimit = DEFAULT_RECURSION_LIMIT,
             !.total_steps = total_steps,
             !.sink = IF api = "sse" THEN << >>
                      ELSE << Event("workflow_start", NoStep, initial_state,
                                    NoPct) >>]

\* stream_adapter.execute_workflow_with_streaming(graph_name, initial_state,
\* emit_fn) up to its first await: load_workflow_graph(graph_name),
\* AGUIStreamAdapter(graph_name, total_steps=None), workflow_start
AdapterExecute(r, valid) ==
  /\ CanStart(r)
  /\ run' = [run EXCEPT ![r] =
        AdapterStart(Idle, "adapter", [input EXCEPT !.valid = valid], 0)]
  /\ nreq' = nreq + 1
  /\ LoadGraph(TRUE)
  /\ UNCHANGED <<graph, input, serial, redis, client, loading, listing, aux, ckpt>>

\* SSEWorkflowStreamer.stream_workflow(graph, graph_name, initial_state,
\* total_steps): the call makes the generator; the adapter's events are
\* formatted and yielded one by one once the consumer iterates it
SseStreamWorkflow(r, valid, known) ==
  /\ CanStart(r)
  /\ run' = [run EXCEPT ![r] =
        AdapterStart(Idle, "sse", [input EXCEPT !.valid = valid],
                     IF known THEN estimated_steps(graph) ELSE 0)]
  /\ nreq' = nreq + 1
  /\ UNCHANGED <<graph, input, serial, redis, client, loaded_graphs, created, loading, listing, aux, ckpt>>

\* server.stream_workflow_execution(graph, initial_state, thread_id,
\* graph_name): the call makes the generator. Once iterated it yields
\* workflow_start, then iterates graph.astream with config
\* {"configurable": {"thread_id": thread_id}}, so the runtime works on the
\* thread's checkpoint.
LegacyStream(r, thread_id) ==
  /\ CanStart(r)
  /\ run' = [run EXCEPT ![r] =
        [Idle EXCEPT !.pc = "new", !.api = "legacy", !.op = "execute",
                     !.emit = TRUE, !.tid = thread_id,
                     !.input = input,
                     !.st = input,
                     !.next = EntryOf(graph),
                     !.limit = DEFAULT_RECURSION_LIMIT,
                     !.cfgLimit = DEFAULT_RECURSION_LIMIT,
                     !.from = ckpt[thread_id]]]
  /\ nreq' = nreq + 1
  /\ UNCHANGED <<graph, input, serial, redis, client, loaded_graphs, created, loading, listing, aux, ckpt>>

\* the event that ends the legacy stream: workflow_rejected when
\* final_state.get("current_step") of the last item is "rejected",
\* workflow_complete otherwise
LegacyFinalEvent(chunk) ==
  IF "current_step" \in chunk.has /\ chunk.current_step = "rejected"
    THEN Event("workflow_rejected", NoStep, chunk, NoPct)
    ELSE Event("workflow_complete", NoStep, chunk, NoPct)

\* One item of the legacy stream. No item carries "__current_node__", so
\* no step_complete is yielded; an item with "__interrupt__" is to yield
\* approval_required, then workflow_paused, after which the generator
\* returns, but formatting approval_required raises and the except clause
\* yields workflow_error instead; an exception of the runtime or of a node
\* yields workflow_error; the end of the stream yields the final event.
\* The runtime writes the thread's checkpoint after every superstep.
LegacyStreamStep(r) ==
  LET rr == run[r]
      o == Superstep(rr)
      required == Event("approval_required", NoStep, InterruptChunk, NoPct)
      paused == Event("workflow_paused", NoStep, InterruptChunk, NoPct)
  IN
  /\ rr.pc = "legacy"
  /\ IF rr.next = END /\ ~rr.input.empty
       THEN /\ run' = [run EXCEPT ![r] =
                  Yielded(rr, LegacyFinalEvent(rr.chunk), << >>, "stop")]
            /\ ckpt' = ckpt
     ELSE IF o.kind = "raise"
       THEN /\ run' = [run EXCEPT ![r] = GenRaised(rr, o.err)]
            /\ ckpt' = ckpt
     ELSE IF o.kind = "interrupt"
       THEN /\ run' = [run EXCEPT ![r] =
                  IF format_sse_event_raises(required)
                    THEN GenRaised([rr EXCEPT !.chunk = InterruptChunk],
                                   "TypeError")
                    ELSE Yielded([rr EXCEPT !.chunk = InterruptChunk],
                                 required, << paused >>, "stop")]
            /\ ckpt' = [ckpt EXCEPT ![rr.tid] = Ckpt(rr.st, rr.next, TRUE)]
     ELSE /\ run' = [run EXCEPT ![r] =
                [rr EXCEPT !.st = o.st, !.next = o.goto, !.ndisp = @ + 1,
                           !.chunk = UpdatesChunk(rr.next, o.st)]]
          /\ ckpt' = [ckpt EXCEPT ![rr.tid] = Ckpt(o.st, o.goto, FALSE)]
  /\ UNCHANGED <<graph, input, serial, redis, client, loaded_graphs, created, loading, listing, aux, nreq>>

\* The consumer asks the generator for its next message (__anext__). A new
\* generator yields workflow_start. A suspended one yields the next event of
\* the item; with none left it awaits the next item of astream (the legacy
\* generator calls astream here for the first time, and the runtime merges
\* the input into the thread's checkpoint), or returns.
GenNext(r) ==
  LET rr == run[r]
  IN
  /\ rr.pc \in {"new", "yielded"}
  /\ run' = [run EXCEPT ![r] =
        IF rr.pc = "new"
          THEN Yielded(rr, Event("workflow_start", NoStep, rr.input, NoPct),
                       << >>, "loop")
        ELSE IF rr.pend # << >>
          THEN Yielded(rr, Head(rr.pend), Tail(rr.pend), rr.ends)
        ELSE IF rr.ends = "stop"
          THEN [rr EXCEPT !.pc = "responded"]
        ELSE IF rr.api = "legacy"
          THEN [rr EXCEPT
                  !.pc = "legacy",
                  !.st = IF ckpt[rr.tid].exists
                           THEN MergeInput(ckpt[rr.tid].st, rr.input)
                           ELSE rr.input]
        ELSE [rr EXCEPT !.pc = "streaming"]]
  /\ UNCHANGED <<graph, input, serial, redis, client, loaded_graphs, created, loading, listing, aux, ckpt, nreq>>

\* The consumer stops reading and closes the generator at the yield it is
\* suspended at, or before it was started: the code behind the yield never
\* runs and the rest of the stream is never produced.
GenClose(r) ==
  LET rr == run[r]
  IN
  /\ rr.pc \in {"new", "yielded"}
  /\ run' = [run EXCEPT ![r] = [rr EXCEPT !.pc = "responded", !.closed = TRUE]]
  /\ UNCHANGED <<graph, input, serial, redis, client, loaded_graphs, created, loading, listing, aux, ckpt, nreq>>

\* ------------------------------------------------ the streaming endpoint
\* stream_workflow_with_executor: one yield of a buffered event, at its
\* index last_emitted (lines 305 and 315). The generator is suspended at
\* every yield, so the executor task may append, and finish, between two
\* writes; the events still buffered when the task is done are written
\* one by one like the others.
HttpPoll(r) ==
  LET rr == run[r]
  IN
  /\ rr.pc \in {"streaming", "task_done"} /\ rr.api = "http"
  /\ ~rr.closed
  /\ rr.last_emitted < Len(rr.sink)
  /\ run' = [run EXCEPT ![r] =
        [rr EXCEPT !.http = Append(@, rr.sink[rr.last_emitted + 1]),
                   !.last_emitted = @ + 1]]
  /\ UNCHANGED <<graph, input, serial, redis, client, loaded_graphs, created, loading, listing, aux, ckpt, nreq>>

\* a handler that writes its final event while events are still buffered
HttpStreamFinishNoFlush(r) ==
  LET rr == run[r]
  IN
  /\ rr.pc = "task_done"
  /\ run' = [run EXCEPT ![r] =
        [rr EXCEPT !.pc = "responded",
                   !.http = Append(@, FinalEvent(rr.result))]]
  /\ UNCHANGED <<graph, input, serial, redis, client, loaded_graphs, created, loading, listing, aux, ckpt, nreq>>

\* execution_task.done() and every buffered event written: the final event
\* is yielded (line 338) and the response ends
HttpStreamFinish(r) ==
  LET rr == run[r]
  IN
  /\ rr.pc = "task_done"
  /\ rr.last_emitted = Len(rr.sink)
  /\ run' = [run EXCEPT ![r] =
        [rr EXCEPT !.pc = "responded",
                   !.http = Append(@, FinalEvent(rr.result))]]
  /\ UNCHANGED <<graph, input, serial, redis, client, loaded_graphs, created, loading, listing, aux, ckpt, nreq>>

\* The client closes the response while the generator is suspended, at a
\* yield or in its sleep, or before it was ever started: nothing more is
\* written, the final event included. A generator that was never started
\* has created no task; a task that exists is not cancelled and runs on to
\* its end.
HttpClose(r) ==
  LET rr == run[r]
  IN
  /\ rr.pc \in {"accepted", "created", "streaming", "task_done"}
  /\ rr.api = "http"
  /\ ~rr.closed
  /\ run' = [run EXCEPT ![r] =
        [rr EXCEPT !.closed = TRUE,
                   !.pc = IF rr.pc \in {"accepted", "task_done"}
                            THEN "responded" ELSE @]]
  /\ UNCHANGED <<graph, input, serial, redis, client, loaded_graphs, created, loading, listing, aux, ckpt, nreq>>

\* the caller has its answer; a generated thread id is never used again
Release(r) ==
  /\ run[r].pc = "responded"
  /\ run' = [run EXCEPT ![r] = Idle]
  /\ ckpt' = [ckpt EXCEPT ![FreshId(r)] = NoCkpt]
  /\ UNCHANGED <<graph, input, serial, redis, client, loaded_graphs, created, loading, listing, aux, nreq>>

\* An external cancellation request carrying the run's thread id, as the
\* concurrency section of the specification describes it.  The sources have
\* no entry point for such a request (server.py routes: /, /workflows,
\* /workflows/{graph_name}, /execute, /resume) and neither WorkflowExecutor nor AGUIStreamAdapter
\* holds or reads a cancellation flag: the request is recorded on the run
\* and nothing in the drive looks at it.
Cancel(r) ==
  /\ run[r].pc \in {"driving", "streaming"}
  /\ ~run[r].cancel
  /\ run' = [run EXCEPT ![r].cancel = TRUE]
  /\ UNCHANGED <<graph, input, serial, redis, client, loaded_graphs, created, loading, listing, aux, ckpt, nreq>>

\* registry.validate_workflow_state(graph, input) called directly: the
\* verdict and the dict as the call leaves it
Validate(r) ==
  /\ r \in ActiveSlots
  /\ run[r].pc = "idle"
  /\ run' = [run EXCEPT ![r] =
               [@ EXCEPT !.pc = "responded", !.api = "registry",
                         !.op = "validate",
                         !.verdict = validate_initial_state(graph, input)]]
  /\ UNCHANGED <<graph, input, serial, redis, client, loaded_graphs, created, loading, listing, aux, ckpt, nreq>>

\* ------------------------------------------------------------ load_graph
\* load_graph up to the import: a cached graph is returned at once, an
\* unregistered name raises ValueError
LoadCheck(c, graph_name) ==
  /\ c \in ActiveSlots
  /\ loading[c].pc = "idle"
  /\ nreq < MaxRequests
  /\ nreq' = nreq + 1
  /\ loading' = [loading EXCEPT ![c] =
        IF graph_name \in GraphNames /\ loaded_graphs[graph_name] # NoGraph
          THEN [pc |-> "returned", graph_name |-> graph_name,
                graph |-> loaded_graphs[graph_name]]
        ELSE IF graph_name \notin GraphNames
          THEN [pc |-> "raised", graph_name |-> graph_name, graph |-> NoGraph]
        ELSE [pc |-> "create", graph_name |-> graph_name, graph |-> NoGraph]]
  /\ UNCHANGED <<graph, input, serial, run, ckpt, redis, client,
                 loaded_graphs, created, listing, aux>>

\* importlib.import_module and module.create_graph(): either the import
\* fails (ImportError) or the factory builds a new compiled graph
LoadCreate(c, imported) ==
  LET l == loading[c] IN
  /\ l.pc = "create"
  /\ IF imported
       THEN /\ created' = [created EXCEPT ![l.graph_name] = @ + 1]
            /\ loading' = [loading EXCEPT ![c] =
                  [l EXCEPT !.pc = "store", !.graph = created[l.graph_name] + 1]]
       ELSE /\ created' = created
            /\ loading' = [loading EXCEPT ![c] = [l EXCEPT !.pc = "raised"]]
  /\ UNCHANGED <<graph, input, serial, run, ckpt, nreq, redis, client,
                 loaded_graphs, listing, aux>>

\* the graph is built and not entered in the cache
LoadStoreNothing(c) ==
  LET l == loading[c] IN
  /\ l.pc = "store"
  /\ loaded_graphs' = loaded_graphs
  /\ loading' = [loading EXCEPT ![c] = [l EXCEPT !.pc = "returned"]]
  /\ UNCHANGED <<graph, input, serial, run, ckpt, nreq, redis, client, created,
                 listing, aux>>

\* self._loaded_graphs[graph_name] = graph; return graph
LoadStore(c) ==
  LET l == loading[c] IN
  /\ l.pc = "store"
  /\ loaded_graphs' = [loaded_graphs EXCEPT ![l.graph_name] = l.graph]
  /\ loading' = [loading EXCEPT ![c] = [l EXCEPT !.pc = "returned"]]
  /\ UNCHANGED <<graph, input, serial, run, ckpt, nreq, redis, client, created,
                 listing, aux>>

\* the caller has its graph or its exception and may call again
LoadDone(c) ==
  /\ loading[c].pc \in {"returned", "raised"}
  /\ loading' = [loading EXCEPT ![c] = IdleLoad]
  /\ UNCHANGED <<graph, input, serial, run, ckpt, nreq, redis, client,
                 loaded_graphs, created, listing, aux>>

\* -------------------------------------------------------- list_workflows
\* registry.list_workflows(industry, tags, capability_filter)
ListWorkflows(args) ==
  /\ listing.pc = "idle"
  /\ listing' = [pc |-> "returned", args |-> args,
                 workflows |-> list_workflows(args).workflows,
                 WORKFLOWS |-> list_workflows(args).WORKFLOWS]
  /\ UNCHANGED <<graph, input, serial, run, ckpt, nreq, redis, client,
                 loaded_graphs, created, loading, aux>>

\* the caller has the dict; the next call starts from the class table
ListDone ==
  /\ listing.pc = "returned"
  /\ listing' = [NotListing EXCEPT !.WORKFLOWS = listing.WORKFLOWS]
  /\ UNCHANGED <<graph, input, serial, run, ckpt, nreq, redis, client,
                 loaded_graphs, created, loading, aux>>

\* ------------------------------------------------------------ RedisSaver
main == <<graph, input, serial, run, ckpt, nreq, loaded_graphs, created, loading,
          listing, aux>>

\* put / aput, first SET: the checkpoint key under the checkpoint's own id
PutCheckpoint ==
  LET w == client.writer IN
  /\ w.pc = "idle"
  /\ w.n < MaxPuts
  /\ redis' = [redis EXCEPT !.checkpoint[_make_key(w.n + 1)] = Stored(w.n + 1)]
  /\ client' = [client EXCEPT !.writer = [w EXCEPT !.pc = "metadata", !.id = w.n + 1]]
  /\ UNCHANGED main

\* put / aput, second SET: the thread's metadata key; then the call returns
PutMetadata ==
  LET w == client.writer IN
  /\ w.pc = "metadata"
  /\ redis' = [redis EXCEPT !.metadata = [ttl |-> TtlTicks, value |-> w.id]]
  /\ client' = [client EXCEPT !.writer = [w EXCEPT !.pc = "idle", !.n = w.id]]
  /\ UNCHANGED main

\* the server's clock: every key loses one tick and is dropped at zero
Tick ==
  LET age(entry) == IF entry.ttl > 1 THEN [entry EXCEPT !.ttl = @ - 1] ELSE NoKey
      rd == client.reader
  IN
  /\ redis' = [redis EXCEPT
                 !.checkpoint = [k \in CheckpointIds |-> age(redis.checkpoint[k])],
                 !.metadata = IF redis.metadata.ttl > 1
                                THEN [redis.metadata EXCEPT !.ttl = @ - 1]
                              ELSE [ttl |-> 0, value |-> 0]]
  /\ client' = [client EXCEPT !.reader.elapsed = @ \/ rd.pc # "idle"]
  /\ UNCHANGED main

\* get / aget with a checkpoint_id: one GET of that key; a hit is followed
\* by the TTL extension when extend_on_access is set
Get(checkpoint_id) ==
  LET rd == client.reader
      data == redis.checkpoint[_make_key(checkpoint_id)]
      hit == data.ttl > 0
  IN
  /\ rd.pc = "idle"
  /\ client' = [client EXCEPT !.reader =
                  [rd EXCEPT !.pc = IF hit /\ redis.extend_on_access
                                      THEN "extend" ELSE "returned",
                             !.op = "get",
                             !.arg = checkpoint_id,
                             !.since = client.writer.n,
                             !.begun = client.writer.id,
                             !.checkpoints =
                                IF hit THEN << data.id >>
                                ELSE << >>]]
  /\ UNCHANGED <<redis, main>>

\* _get_latest and list begin with the scan of the thread's checkpoint keys;
\* without a key _get_latest returns None and list yields nothing
Scan(op) ==
  LET rd == client.reader IN
  /\ rd.pc = "idle"
  /\ \E keys \in scan_iter(redis) :
       client' = [client EXCEPT !.reader =
                    [rd EXCEPT !.pc = IF keys = << >> THEN "returned" ELSE "data",
                               !.op = op, !.keys = keys,
                               !.since = client.writer.n,
                               !.begun = client.writer.id]]
  /\ UNCHANGED <<redis, main>>

\* data = redis.get(key) for the next key. _get_latest collects the
\* checkpoint and, after the last key, keeps the one with the greatest ts;
\* list goes on to read the metadata key.
GetData ==
  LET rd == client.reader
      key == Head(rd.keys)
      found == IF redis.checkpoint[key].ttl > 0
                 THEN << redis.checkpoint[key].id >> ELSE << >>
      all == rd.checkpoints \o found
  IN
  /\ rd.pc = "data"
  /\ client' = [client EXCEPT !.reader =
       IF rd.op = "list"
         THEN IF found = << >>
                THEN [rd EXCEPT !.keys = Tail(rd.keys),
                                !.pc = IF Tail(rd.keys) = << >>
                                         THEN "returned" ELSE "data"]
              ELSE [rd EXCEPT !.pc = "metadata", !.data = found[1]]
       ELSE IF Tail(rd.keys) # << >>
         THEN [rd EXCEPT !.keys = Tail(rd.keys), !.checkpoints = all]
       ELSE IF all = << >>
         THEN [rd EXCEPT !.keys = << >>, !.pc = "returned"]
       ELSE [rd EXCEPT !.keys = << >>,
                       !.pc = IF redis.extend_on_access
                                THEN "extend" ELSE "returned",
                       !.checkpoints = << Latest(all) >>]]
  /\ UNCHANGED <<redis, main>>

\* list: metadata_data = redis.get(metadata_key), {} when the key is
\* missing; then the tuple is yielded
GetMetadata ==
  LET rd == client.reader IN
  /\ rd.pc = "metadata"
  /\ client' = [client EXCEPT !.reader =
                  [rd EXCEPT !.checkpoints = Append(@, rd.data),
                             !.metadata = Append(@, redis.metadata.value),
                             !.keys = Tail(rd.keys),
                             !.data = 0,
                             !.pc = IF Tail(rd.keys) = << >>
                                      THEN "returned" ELSE "data"]]
  /\ UNCHANGED <<redis, main>>

\* get and _get_latest with extend_on_access, first EXPIRE: the key of the
\* checkpoint about to be returned
ExtendCheckpoint ==
  LET rd == client.reader
      id == rd.checkpoints[1]
  IN
  /\ rd.pc = "extend"
  /\ redis' = [redis EXCEPT !.checkpoint[_make_key(id)] = expire(@)]
  /\ client' = [client EXCEPT !.reader.pc = "extend_metadata"]
  /\ UNCHANGED main

\* second EXPIRE, a command of its own: the metadata key
ExtendMetadata ==
  /\ client.reader.pc = "extend_metadata"
  /\ redis' = [redis EXCEPT !.metadata = expire(@)]
  /\ client' = [client EXCEPT !.reader.pc = "returned"]
  /\ UNCHANGED main

\* the caller takes the result; the reader is free for its next call
ReaderDone ==
  /\ client.reader.pc = "returned"
  /\ client' = [client EXCEPT !.reader = IdleReader]
  /\ UNCHANGED <<redis, main>>

\* ------------------------------------------------------- specification
Next ==
  \/ \E r \in Slots, t \in ThreadIds \cup {NoThread}, s \in BOOLEAN, v \in BOOLEAN :
        HttpExecute(r, t, s, v)
  \/ \E r \in Slots, t \in ThreadIds, d \in Decisions : HttpResume(r, t, d)
  \/ \E r \in Slots, t \in ThreadIds \cup {NoThread}, e \in BOOLEAN,
        l \in {SmallLimit, DEFAULT_RECURSION_LIMIT}, v \in BOOLEAN :
        ExecutorExecute(r, t, e, l, v)
  \/ \E r \in Slots, c \in ThreadIds, t \in ThreadIds \cup {NoThread},
        e \in BOOLEAN, w \in BOOLEAN : ExecutorResume(r, c, t, e, w)
  \/ \E r \in Slots, t \in ThreadIds : GraphInvoke(r, t)
  \/ \E r \in Slots, t \in ThreadIds, d \in Decisions : GraphResume(r, t, d)
  \/ \E r \in Slots : Dispatch(r)
  \/ \E r \in Slots : StreamStep(r)
  \/ \E r \in Slots : HttpPoll(r)
  \/ \E r \in Slots : HttpStreamFinish(r)
  \/ \E r \in Slots : HttpClose(r)
  \/ \E r \in Slots : HttpStreamOpen(r)
  \/ \E r \in Slots : HttpTaskStart(r)
  \/ \E r \in Slots : GenNext(r)
  \/ \E r \in Slots : GenClose(r)
  \/ \E r \in Slots, v \in BOOLEAN : AdapterExecute(r, v)
  \/ \E r \in Slots, v \in BOOLEAN, k \in BOOLEAN : SseStreamWorkflow(r, v, k)
  \/ \E r \in Slots, t \in ThreadIds : LegacyStream(r, t)
  \/ \E r \in Slots : LegacyStreamStep(r)
  \/ \E r \in Slots : Release(r)

Spec == Init /\ [][Next]_vars

\* ------------------------------------------------ request_approval
\* a node calls request_approval(action, risk_level, details, reason,
\* emit_callback): the ui_prompt event goes out when a callback was given,
\* then interrupt() suspends the run
RequestApproval ==
  /\ approval.pc = "calling"
  /\ approval' = [approval EXCEPT
        !.pc = "suspended",
        !.prompts = IF approval.emit_callback THEN @ + 1 ELSE @]
  /\ UNCHANGED <<service, retry, keyspace, apps>>

\* the run is resumed with `payload`: the runtime runs the node again from
\* its first line, interrupt() now returns the payload and request_approval
\* builds its result
ResumeApproval(payload) ==
  /\ approval.pc = "suspended"
  /\ approval' = [approval EXCEPT
        !.pc = IF ApprovalResult(payload).raised THEN "raised" ELSE "returned",
        !.payload = payload,
        !.prompts = IF approval.emit_callback THEN @ + 1 ELSE @,
        !.result = ApprovalResult(payload)]
  /\ UNCHANGED <<service, retry, keyspace, apps>>

\* the same requests, with cancellation requests arriving while a run drives
NextCancel ==
  \/ Next
  \/ \E r \in Slots : Cancel(r)

SpecCancel == Init /\ [][NextCancel]_vars

\* overlapping HTTP requests whose clients read their responses to the end:
\* the server awaits the executor, so a second request is served while the
\* drive of the first is between supersteps
NextConc ==
  \/ \E r \in Slots, t \in ThreadIds \cup {NoThread}, s \in BOOLEAN :
        HttpExecute(r, t, s, TRUE)
  \/ \E r \in Slots, t \in ThreadIds, d \in Decisions : HttpResume(r, t, d)
  \/ \E r \in Slots : Dispatch(r)
  \/ \E r \in Slots : StreamStep(r)
  \/ \E r \in Slots : HttpPoll(r)
  \/ \E r \in Slots : HttpStreamFinish(r)
  \/ \E r \in Slots : HttpStreamOpen(r)
  \/ \E r \in Slots : HttpTaskStart(r)
  \/ \E r \in Slots : Release(r)

SpecConc == InitConc /\ [][NextConc]_vars

\* overlapping streams handed to their consumers: each consumer resumes or
\* closes its own generator, and the generators of other consumers run
\* between two messages and while an item of astream is awaited
NextGen ==
  \/ \E r \in Slots, v \in BOOLEAN, k \in BOOLEAN : SseStreamWorkflow(r, v, k)
  \/ \E r \in Slots, t \in ThreadIds : LegacyStream(r, t)
  \/ \E r \in Slots : GenNext(r)
  \/ \E r \in Slots : GenClose(r)
  \/ \E r \in Slots : StreamStep(r)
  \/ \E r \in Slots : LegacyStreamStep(r)
  \/ \E r \in Slots : Release(r)

SpecGen == InitConc /\ [][NextGen]_vars

NextValidate ==
  \/ \E r \in Slots : Validate(r)
  \/ \E r \in Slots : Release(r)

SpecValidate == InitValidate /\ [][NextValidate]_vars

\* callers of load_graph on a registry whose cache starts empty: one caller
\* at a time, or two callers (threads) whose calls interleave
\* the workflow service at rest
ServiceIdle(concurrent) ==
  /\ serial = ~concurrent
  /\ graph = "hotel_o2c"
  /\ input \in {x \in ValidStatesOf(graph) : x.has = BaseKeys /\ ~x.pending_approval}
  /\ run = [r \in Slots |-> Idle]
  /\ ckpt = [t \in AllThreads |-> NoCkpt]
  /\ nreq = 0
  /\ redis = EmptyStore(TRUE)
  /\ client = IdleClients
  /\ loaded_graphs = NotLoaded
  /\ created = [n \in GraphNames |-> 0]
  /\ loading = [c \in Slots |-> IdleLoad]
  /\ listing = NotListing

InitLoad(concurrent) == ServiceIdle(concurrent) /\ AuxIdle

NextLoad ==
  \/ \E c \in Slots, n \in LoadNames : LoadCheck(c, n)
  \/ \E c \in Slots, imported \in BOOLEAN : LoadCreate(c, imported)
  \/ \E c \in Slots : LoadStore(c)
  \/ \E c \in Slots : LoadDone(c)

InitLoadSerial == InitLoad(FALSE)
InitLoadConc == InitLoad(TRUE)
SpecLoad == InitLoadSerial /\ [][NextLoad]_vars
SpecLoadConc == InitLoadConc /\ [][NextLoad]_vars

NextList ==
  \/ \E args \in ListArgs : ListWorkflows(args)
  \/ ListDone

SpecList == InitLoadSerial /\ [][NextList]_vars

\* a RedisSaver with either setting of extend_on_access and an empty thread
InitRedis ==
  /\ serial = FALSE
  /\ graph = "hotel_o2c"
  /\ input \in {x \in ValidStatesOf(graph) : x.has = BaseKeys /\ ~x.pending_approval}
  /\ run = [r \in Slots |-> Idle]
  /\ ckpt = [t \in AllThreads |-> NoCkpt]
  /\ nreq = 0
  /\ redis \in {EmptyStore(e) : e \in BOOLEAN}
  /\ client = IdleClients
  /\ loaded_graphs = NotLoaded
  /\ created = [n \in GraphNames |-> 0]
  /\ loading = [c \in Slots |-> IdleLoad]
  /\ listing = NotListing
  /\ AuxIdle

\* a writer and a reader of one thread's checkpoints, interleaved at every
\* Redis command and with the passing of time
NextRedis ==
  \/ PutCheckpoint
  \/ PutMetadata
  \/ Tick
  \/ \E id \in CheckpointIds : Get(id)
  \/ \E op \in {"get_latest", "list"} : Scan(op)
  \/ GetData
  \/ GetMetadata
  \/ ExtendCheckpoint
  \/ ExtendMetadata
  \/ ReaderDone

SpecRedis == InitRedis /\ [][NextRedis]_vars

\* ------------------------------------------------------- with_retry
\* One pass of the loop `for attempt in range(1, max_attempts + 1)`: the
\* operation is called; on success the result is returned; on an error
\* that should_retry declines, or at the last attempt, failure is returned;
\* otherwise the delay is computed, jittered, added to total_delay, slept,
\* and current_delay is multiplied by backoff_factor.
RetryAttempt(outcome, jitter_factor) ==
  LET n == retry.attempt + 1
      delay == RetryDelay(retry.current_delay, retry.cfg.max_delay)
      seen == [retry EXCEPT !.attempt = n, !.outcomes = Append(@, outcome)]
  IN
  /\ retry.pc = "running"
  /\ retry.attempt < retry.cfg.max_attempts
  /\ jitter_factor \in JitterFactors(retry.cfg.jitter)
  /\ retry' =
       IF outcome = "ok"
         THEN [seen EXCEPT !.pc = "returned", !.success = TRUE]
       ELSE IF outcome = "fatal"
         THEN [seen EXCEPT !.pc = "returned", !.error = "Non-retryable error"]
       ELSE IF n >= retry.cfg.max_attempts
         THEN [seen EXCEPT !.pc = "returned", !.error = "Max retries exceeded"]
       ELSE [seen EXCEPT
               !.total_delay = @ + (delay * jitter_factor) \div 4,
               !.current_delay = @ * retry.cfg.backoff_factor,
               !.waits = Append(@, delay),
               !.slept = Append(@, (delay * jitter_factor) \div 4)]
  /\ UNCHANGED <<service, approval, keyspace, apps>>

\* the loop ran out without returning (max_attempts below 1): the failure
\* after the loop
RetryLoopEnded ==
  /\ retry.pc = "running"
  /\ retry.attempt >= retry.cfg.max_attempts
  /\ retry' = [retry EXCEPT !.pc = "returned",
                            !.error = "Retry loop completed without success or final failure"]
  /\ UNCHANGED <<service, approval, keyspace, apps>>

InitRetry ==
  /\ ServiceIdle(FALSE)
  /\ approval = NoApproval
  /\ keyspace = EmptyKeyspace
  /\ AppsIdle
  /\ \E cfg \in RetryConfigs :
        retry = [NoRetry EXCEPT !.pc = "running", !.cfg = cfg,
                                !.current_delay = cfg.initial_delay]

NextRetry ==
  \/ \E o \in Outcomes, j \in {3, 4, 5} : RetryAttempt(o, j)
  \/ RetryLoopEnded

SpecRetry == InitRetry /\ [][NextRetry]_vars

\* ------------------------------------------- RedisSaver, several threads
\* put(config, checkpoint, metadata) for thread_id: the checkpoint key is
\* SET with the TTL (a put under an id the thread already used overwrites).
\* The metadata key f"{namespace}:metadata:{thread_id}" that put also
\* writes matches no checkpoint pattern and is not part of this keyspace.
KeyPut(thread_id, checkpoint_id) ==
  /\ keyspace.puts < MaxPuts
  /\ keyspace' = [keyspace EXCEPT
        !.puts = @ + 1,
        !.entries = {e \in @ : ~(e.thread = thread_id /\ e.id = checkpoint_id)}
                    \cup {[thread |-> thread_id, id |-> checkpoint_id,
                            ts |-> keyspace.puts + 1, ttl |-> TtlTicks]}]
  /\ UNCHANGED <<service, approval, retry, apps>>

\* time passes: every TTL runs down, keys at zero are gone
KeyTick ==
  /\ keyspace.entries # {}
  /\ keyspace' = [keyspace EXCEPT
        !.entries = {[e EXCEPT !.ttl = @ - 1] : e \in {f \in @ : f.ttl > 1}}]
  /\ UNCHANGED <<service, approval, retry, apps>>

\* the identity of a stored checkpoint: the thread it was put under and its id
NameOf(e) == [thread |-> e.thread, id |-> e.id]

\* get(config) without checkpoint_id -> _get_latest(thread_id), and
\* list(config): keys = redis.scan_iter(match=pattern), the first command
\* of a read. A reader begins a call when its last one has returned.
KeyScan(op, thread_id) ==
  LET found == ScanMatch(keyspace.entries, PatternOf(thread_id))
  IN
  /\ keyspace.read.pc \in {"idle", "returned"}
  /\ keyspace' = [keyspace EXCEPT
        !.read = [NoRead EXCEPT !.op = op, !.thread = thread_id,
                                !.keys = {NameOf(e) : e \in found},
                                !.pc = IF found = {} THEN "returned" ELSE "data"]]
  /\ UNCHANGED <<service, approval, retry, apps>>

\* data = redis.get(key) for the next key of the scan, in the order the
\* scan gave, which is any order; a key that is gone by now is skipped.
\* _get_latest goes on to the maximum once every key is read and, if
\* self.extend_on_access, to the two EXPIREs, otherwise it returns the
\* latest; list goes on to read the metadata before it yields the
\* checkpoint.
KeyGetData ==
  LET rd == keyspace.read IN
  /\ rd.pc = "data"
  /\ \E key \in rd.keys :
       LET data == {e \in keyspace.entries : NameOf(e) = key}
           left == rd.keys \ {key}
           got == rd.got \cup data
       IN
       keyspace' = [keyspace EXCEPT
         !.read = [rd EXCEPT
            !.keys = left,
            !.got = IF rd.op = "list" THEN data ELSE got,
            !.pc = IF rd.op = "list" /\ data # {} THEN "metadata"
                   ELSE IF left # {} THEN "data"
                   ELSE IF rd.op = "get_latest" /\ got # {}
                             /\ keyspace.extend_on_access THEN "extend"
                   ELSE "returned",
            !.checkpoints =
               IF rd.op = "get_latest" /\ left = {} /\ got # {}
                 THEN {NameOf(LatestOf(got))} ELSE @]]
  /\ UNCHANGED <<service, approval, retry, apps>>

\* list: metadata_data = redis.get(metadata_key), then the checkpoint is
\* yielded; the generator goes on when the consumer asks for the next one.
\* The metadata key is not part of this keyspace.
KeyGetMetadata ==
  LET rd == keyspace.read IN
  /\ rd.pc = "metadata"
  /\ keyspace' = [keyspace EXCEPT
        !.read = [rd EXCEPT
           !.checkpoints = @ \cup {NameOf(e) : e \in rd.got},
           !.got = {},
           !.pc = IF rd.keys = {} THEN "returned" ELSE "data"]]
  /\ UNCHANGED <<service, approval, retry, apps>>

\* _get_latest, if self.extend_on_access:
\* redis.expire(self._make_key(thread_id, latest["id"]), ttl), the key built
\* from the caller's thread id and the id of the checkpoint about to be
\* returned
KeyExtend ==
  LET rd == keyspace.read
      hit == {e \in keyspace.entries :
                \E c \in rd.checkpoints :
                   KeyOf(e.thread, e.id) = KeyOf(rd.thread, c.id)}
  IN
  /\ rd.pc = "extend"
  /\ keyspace.extend_on_access
  /\ keyspace' = [keyspace EXCEPT
        !.entries = {IF e \in hit THEN [e EXCEPT !.ttl = TtlTicks] ELSE e
                       : e \in @},
        !.read = [rd EXCEPT !.extended = {NameOf(e) : e \in hit},
                            !.got = {},
                            !.pc = "extend_metadata"]]
  /\ UNCHANGED <<service, approval, retry, apps>>

\* _get_latest: redis.expire(metadata_key, ttl), on a key that is not part
\* of this keyspace; the call returns the latest checkpoint
KeyExtendMetadata ==
  /\ keyspace.read.pc = "extend_metadata"
  /\ keyspace' = [keyspace EXCEPT !.read.pc = "returned"]
  /\ UNCHANGED <<service, approval, retry, apps>>

\* writers, the clock and one reader, interleaved at every Redis command
NextKeys ==
  \/ \E t \in KeyThreads, c \in KeyCheckpoints : KeyPut(t, c)
  \/ KeyTick
  \/ \E op \in {"get_latest", "list"}, t \in KeyThreads : KeyScan(op, t)
  \/ KeyGetData
  \/ KeyGetMetadata
  \/ KeyExtend
  \/ KeyExtendMetadata

\* a RedisSaver with either setting of extend_on_access and no keys yet
InitKeys ==
  /\ ServiceIdle(FALSE)
  /\ approval = NoApproval
  /\ retry = NoRetry
  /\ keyspace \in {[EmptyKeyspace EXCEPT !.extend_on_access = e] : e \in BOOLEAN}
  /\ AppsIdle

SpecKeys == InitKeys /\ [][NextKeys]_vars

\* a node that asks for approval, for every risk level, with and without
\* an event callback
InitApproval ==
  /\ ServiceIdle(FALSE)
  /\ retry = NoRetry
  /\ keyspace = EmptyKeyspace
  /\ AppsIdle
  /\ \E level \in RiskLevels, cb \in BOOLEAN :
        approval = [NoApproval EXCEPT !.pc = "calling", !.risk_level = level,
                                      !.emit_callback = cb]

NextApproval ==
  \/ RequestApproval
  \/ \E payload \in ResumePayloads : ResumeApproval(payload)

SpecApproval == InitApproval /\ [][NextApproval]_vars

\* --------------------------------------------------------- SessionManager
\* datetime.utcnow() moves on
SmTick ==
  /\ sm.now < MaxClock
  /\ sm' = [sm EXCEPT !.now = @ + 1]
  /\ UNCHANGED <<service, helpers, bulk, coagent, o2c>>

\* create_session(user_id, erpnext_session_token, ...): a session under a
\* fresh uuid4, ACTIVE, expiring session_timeout from now
SmCreateSession(sid) ==
  /\ sid \notin sm.issued
  /\ sm' = [sm EXCEPT
        !.sessions = (sid :> [status |-> "active",
                              last_activity |-> sm.now,
                              expires_at |-> sm.now + session_timeout,
                              conversation_history |-> 0,
                              pending_approvals |-> << >>,
                              active_workflow_id |-> "",
                              workflow_state |-> {}]) @@ @,
        !.issued = @ \cup {sid},
        !.last = [ok |-> TRUE]]
  /\ UNCHANGED <<service, helpers, bulk, coagent, o2c>>

\* the n readings of datetime.utcnow() one call can take: the first is the
\* clock at the call, and each later one is the one before it or any later
\* time (the clock moves on by any amount while the call runs)
Readings(now, n) ==
  {t \in [1..n -> now..MaxClock] :
     t[1] = now /\ \A i \in 1..(n - 1) : t[i] <= t[i + 1]}

\* the readings a call has left after its first k
Later(t, k) == SubSeq(t, k + 1, Len(t))

\* get_session(session_id): None for an unknown id; a session whose
\* expires_at lies before now is marked EXPIRED and None is returned
get_session(sessions, sid, now) ==
  IF sid \notin DOMAIN sessions
    THEN [session |-> FALSE, sessions |-> sessions]
  ELSE IF sessions[sid].expires_at < now
    THEN [session |-> FALSE,
          sessions |-> [sessions EXCEPT ![sid].status = "expired"]]
  ELSE [session |-> TRUE, sessions |-> sessions]

\* update_activity(session_id): get_session reads the clock (t[1]), then
\* now = utcnow() is read again (t[2]) for last_activity and expires_at
update_activity(sessions, sid, t) ==
  LET got == get_session(sessions, sid, t[1]) IN
  IF ~got.session THEN [ok |-> FALSE, sessions |-> got.sessions]
  ELSE [ok |-> TRUE,
        sessions |-> [got.sessions EXCEPT
                        ![sid].last_activity = t[2],
                        ![sid].expires_at = t[2] + session_timeout]]

\* add_message(session_id, role, content): get_session (t[1]), the
\* message with its timestamp (t[2]) is appended, then update_activity
\* runs (t[3], t[4]) and True is returned whatever it returned
add_message(sessions, sid, t) ==
  LET got == get_session(sessions, sid, t[1]) IN
  IF ~got.session THEN [ok |-> FALSE, sessions |-> got.sessions]
  ELSE [ok |-> TRUE,
        sessions |-> update_activity([got.sessions EXCEPT
                        ![sid].conversation_history = @ + 1],
                      sid, Later(t, 2)).sessions]

\* update_document_context(session_id, doctype, doc_name, context_data):
\* get_session (t[1]), the document context with its loaded_at (t[2]), then
\* update_activity (t[3], t[4]); True is returned whatever it returned
update_document_context(sessions, sid, t) ==
  LET got == get_session(sessions, sid, t[1]) IN
  IF ~got.session THEN [ok |-> FALSE, sessions |-> got.sessions]
  ELSE [ok |-> TRUE,
        sessions |-> update_activity(got.sessions, sid, Later(t, 2)).sessions]

\* create_approval_request(session_id, tool_name, operation, preview,
\* risk_level): get_session (t[1]), a pending approval that times out
\* timeout_minutes from now (t[2]), then update_activity (t[3], t[4])
create_approval_request(sessions, sid, t) ==
  LET got == get_session(sessions, sid, t[1]) IN
  IF ~got.session THEN [ok |-> FALSE, sessions |-> got.sessions]
  ELSE [ok |-> TRUE,
        sessions |-> update_activity([got.sessions EXCEPT
                        ![sid].pending_approvals =
                           Append(@, [timeout_at |-> t[2] + timeout_minutes,
                                      status |-> "pending"])],
                      sid, Later(t, 2)).sessions]

\* resolve_approval(session_id, approval_id, decision): get_session
\* (t[1]); the approval with that id is the i-th of the session (no i in
\* range: no approval has the id); past its timeout (t[2]) it is marked
\* expired and returned, otherwise its status becomes the decision and
\* update_activity runs (t[3], t[4])
resolve_approval(sessions, sid, i, decision, t) ==
  LET got == get_session(sessions, sid, t[1]) IN
  IF ~got.session \/ i \notin 1..Len(got.sessions[sid].pending_approvals)
    THEN [ok |-> FALSE, sessions |-> got.sessions]
  ELSE IF got.sessions[sid].pending_approvals[i].timeout_at < t[2]
    THEN [ok |-> TRUE,
          sessions |-> [got.sessions EXCEPT
                          ![sid].pending_approvals[i].status = "expired"]]
  ELSE [ok |-> TRUE,
        sessions |-> update_activity([got.sessions EXCEPT
                        ![sid].pending_approvals[i].status = decision],
                      sid, Later(t, 2)).sessions]

\* start_workflow(session_id, workflow_id, initial_state): get_session
\* (t[1]), the workflow is set, update_activity (t[2], t[3])
start_workflow(sessions, sid, t) ==
  LET got == get_session(sessions, sid, t[1]) IN
  IF ~got.session THEN [ok |-> FALSE, sessions |-> got.sessions]
  ELSE [ok |-> TRUE,
        sessions |-> update_activity([got.sessions EXCEPT
                        ![sid].active_workflow_id = "wf",
                        ![sid].workflow_state = {"initial"}],
                      sid, Later(t, 1)).sessions]

\* update_workflow_state(session_id, state_update): get_session (t[1]),
\* the update, update_activity (t[2], t[3])
update_workflow_state(sessions, sid, t) ==
  LET got == get_session(sessions, sid, t[1]) IN
  IF ~got.session THEN [ok |-> FALSE, sessions |-> got.sessions]
  ELSE [ok |-> TRUE,
        sessions |-> update_activity([got.sessions EXCEPT
                        ![sid].workflow_state = @ \cup {"update"}],
                      sid, Later(t, 1)).sessions]

\* close_session(session_id)
close_session(sessions, sid, now) ==
  LET got == get_session(sessions, sid, now) IN
  IF ~got.session THEN [ok |-> FALSE, sessions |-> got.sessions]
  ELSE [ok |-> TRUE, sessions |-> [got.sessions EXCEPT ![sid].status = "closed"]]

\* cleanup_expired_sessions(): every session whose expires_at lies before
\* now is deleted; the number of them is returned
cleanup_expired_sessions(sessions, now) ==
  LET gone == {sid \in DOMAIN sessions : sessions[sid].expires_at < now} IN
  [ok |-> gone # {},
   sessions |-> [sid \in DOMAIN sessions \ gone |-> sessions[sid]]]

\* a call of the manager ended at clock `now`: the sessions it left and
\* whether it returned something other than None, False or 0
SmReturned(call, now) ==
  [sm EXCEPT !.now = now, !.sessions = call.sessions, !.last = [ok |-> call.ok]]

SmGetSession(sid) ==
  /\ sm' = SmReturned(LET got == get_session(sm.sessions, sid, sm.now) IN
              [ok |-> got.session, sessions |-> got.sessions], sm.now)
  /\ UNCHANGED <<service, helpers, bulk, coagent, o2c>>

SmUpdateActivity(sid, t) ==
  /\ t \in Readings(sm.now, 2)
  /\ sm' = SmReturned(update_activity(sm.sessions, sid, t),
                      t[2])
  /\ UNCHANGED <<service, helpers, bulk, coagent, o2c>>

SmAddMessage(sid, t) ==
  /\ t \in Readings(sm.now, 4)
  /\ \A s \in DOMAIN sm.sessions :
        sm.sessions[s].conversation_history < MaxMessages
  /\ sm' = SmReturned(add_message(sm.sessions, sid, t),
                      t[4])
  /\ UNCHANGED <<service, helpers, bulk, coagent, o2c>>

SmUpdateDocumentContext(sid, t) ==
  /\ t \in Readings(sm.now, 4)
  /\ sm' = SmReturned(update_document_context(sm.sessions, sid, t),
                      t[4])
  /\ UNCHANGED <<service, helpers, bulk, coagent, o2c>>

\* export_session_state(session_id): get_session, then a dict built from
\* the session (None when get_session found none)
SmExportSessionState(sid) ==
  /\ sm' = SmReturned(LET got == get_session(sm.sessions, sid, sm.now) IN
              [ok |-> got.session, sessions |-> got.sessions], sm.now)
  /\ UNCHANGED <<service, helpers, bulk, coagent, o2c>>

SmCreateApprovalRequest(sid, t) ==
  /\ t \in Readings(sm.now, 4)
  /\ \A s \in DOMAIN sm.sessions :
        Len(sm.sessions[s].pending_approvals) < MaxApprovals
  /\ sm' = SmReturned(create_approval_request(sm.sessions, sid, t),
                      t[4])
  /\ UNCHANGED <<service, helpers, bulk, coagent, o2c>>

SmResolveApproval(sid, i, decision, t) ==
  /\ t \in Readings(sm.now, 4)
  /\ sm' = SmReturned(resolve_approval(sm.sessions, sid, i, decision, t),
                      t[4])
  /\ UNCHANGED <<service, helpers, bulk, coagent, o2c>>

SmStartWorkflow(sid, t) ==
  /\ t \in Readings(sm.now, 3)
  /\ sm' = SmReturned(start_workflow(sm.sessions, sid, t),
                      t[3])
  /\ UNCHANGED <<service, helpers, bulk, coagent, o2c>>

SmUpdateWorkflowState(sid, t) ==
  /\ t \in Readings(sm.now, 3)
  /\ sm' = SmReturned(update_workflow_state(sm.sessions, sid, t),
                      t[3])
  /\ UNCHANGED <<service, helpers, bulk, coagent, o2c>>

SmCloseSession(sid) ==
  /\ sm' = SmReturned(close_session(sm.sessions, sid, sm.now), sm.now)
  /\ UNCHANGED <<service, helpers, bulk, coagent, o2c>>

SmCleanupExpiredSessions ==
  /\ sm' = SmReturned(cleanup_expired_sessions(sm.sessions, sm.now), sm.now)
  /\ UNCHANGED <<service, helpers, bulk, coagent, o2c>>

InitSm ==
  /\ ServiceIdle(FALSE)
  /\ approval = NoApproval
  /\ retry = NoRetry
  /\ keyspace = EmptyKeyspace
  /\ sm = NoSm
  /\ bulk = NoBulk
  /\ coagent = NoCoagent
  /\ o2c = NoO2c

NextSm ==
  \/ SmTick
  \/ \E sid \in SessionIds : SmCreateSession(sid)
  \/ \E sid \in LookupIds : SmGetSession(sid)
  \/ \E sid \in LookupIds, t \in [1..2 -> 0..MaxClock] : SmUpdateActivity(sid, t)
  \/ \E sid \in LookupIds, t \in [1..4 -> 0..MaxClock] : SmAddMessage(sid, t)
  \/ \E sid \in LookupIds, t \in [1..4 -> 0..MaxClock] : SmUpdateDocumentContext(sid, t)
  \/ \E sid \in LookupIds : SmExportSessionState(sid)
  \/ \E sid \in LookupIds, t \in [1..4 -> 0..MaxClock] : SmCreateApprovalRequest(sid, t)
  \/ \E sid \in LookupIds, i \in 0..MaxApprovals, d \in ResolveDecisions,
        t \in [1..4 -> 0..MaxClock] : SmResolveApproval(sid, i, d, t)
  \/ \E sid \in LookupIds, t \in [1..3 -> 0..MaxClock] : SmStartWorkflow(sid, t)
  \/ \E sid \in LookupIds, t \in [1..3 -> 0..MaxClock] : SmUpdateWorkflowState(sid, t)
  \/ \E sid \in LookupIds : SmCloseSession(sid)
  \/ SmCleanupExpiredSessions

SpecSm == InitSm /\ [][NextSm]_vars


\* ------------------------------------------------------------ bulk_update
\* _update_single_document(doctype, docname, fields): the result for a
\* document of the given kind; only an updatable document is saved
update_single_document(kind) ==
  IF kind = "missing"
    THEN [success |-> FALSE, error |-> "Document does not exist"]
  ELSE IF kind = "no_permission"
    THEN [success |-> FALSE, error |-> "No write permission"]
  ELSE IF kind = "no_field"
    THEN [success |-> FALSE, error |-> "Field does not exist"]
  ELSE IF kind = "save_error"
    THEN [success |-> FALSE, error |-> "Validation error"]
  ELSE [success |-> TRUE, error |-> ""]

\* bulk_update(documents, update_fields) is entered: an empty batch is
\* answered at once, another goes to the loop over its documents
BulkUpdateCalled ==
  /\ bulk.pc = "called"
  /\ bulk' = IF Len(bulk.docs) = 0
               THEN [bulk EXCEPT !.pc = "returned",
                       !.response = [success |-> TRUE, updated |-> 0,
                                     failed |-> 0, results |-> << >>]]
             ELSE [bulk EXCEPT !.pc = "updating"]
  /\ UNCHANGED <<service, helpers, sm, coagent, o2c>>

\* one pass of the loop: the next document is updated inside the open
\* transaction and its result is counted
BulkUpdateDocument ==
  /\ bulk.pc = "updating"
  /\ Len(bulk.results) < Len(bulk.docs)
  /\ LET d == bulk.docs[Len(bulk.results) + 1]
         doc_result == update_single_document(bulk.kinds[d]) IN
     bulk' = [bulk EXCEPT
        !.results = Append(@, doc_result),
        !.working = IF doc_result.success THEN [@ EXCEPT ![d] = "new"] ELSE @,
        !.updated_count = IF doc_result.success THEN @ + 1 ELSE @,
        !.failed_count = IF doc_result.success THEN @ ELSE @ + 1]
  /\ UNCHANGED <<service, helpers, sm, coagent, o2c>>

\* the end of bulk_update that commits whatever was saved
BulkOutcomeCommitAlways(b) ==
  [b EXCEPT !.pc = "returned", !.committed = b.working,
            !.response = [success |-> b.failed_count = 0,
                          updated |-> b.updated_count,
                          failed |-> b.failed_count,
                          results |-> b.results]]

\* the end of bulk_update: commit when no document failed; otherwise roll
\* back, mark every result failed and report updated = 0
BulkOutcome(b) ==
  IF b.failed_count = 0
    THEN [b EXCEPT !.pc = "returned", !.committed = b.working,
                   !.response = [success |-> TRUE,
                                 updated |-> b.updated_count,
                                 failed |-> b.failed_count,
                                 results |-> b.results]]
  ELSE LET marked == [i \in 1..Len(b.results) |->
                        IF b.results[i].success
                          THEN [success |-> FALSE,
                                error |-> "Update rolled back due to failures in this batch"]
                        ELSE b.results[i]] IN
       [b EXCEPT !.pc = "returned", !.working = b.committed,
                 !.results = marked,
                 !.updated_count = 0,
                 !.failed_count = Cardinality({i \in 1..Len(marked) : ~marked[i].success}),
                 !.response = [success |-> FALSE, updated |-> 0,
                               failed |-> Cardinality({i \in 1..Len(marked) : ~marked[i].success}),
                               results |-> marked]]

BulkUpdateFinished ==
  /\ bulk.pc = "updating"
  /\ Len(bulk.results) = Len(bulk.docs)
  /\ bulk' = BulkOutcome(bulk)
  /\ UNCHANGED <<service, helpers, sm, coagent, o2c>>

\* bulk_update called with every batch of up to MaxBatch document
\* references, over every assignment of kinds to the documents
InitBulk ==
  /\ ServiceIdle(FALSE)
  /\ approval = NoApproval
  /\ retry = NoRetry
  /\ keyspace = EmptyKeyspace
  /\ sm = NoSm
  /\ coagent = NoCoagent
  /\ o2c = NoO2c
  /\ \E docs \in BatchesOf(MaxBatch), kinds \in [DocNames -> DocKinds] :
        bulk = [NoBulk EXCEPT !.pc = "called", !.docs = docs, !.kinds = kinds]

NextBulk ==
  \/ BulkUpdateCalled
  \/ BulkUpdateDocument
  \/ BulkUpdateFinished

SpecBulk == InitBulk /\ [][NextBulk]_vars

\* --------------------------------------------------------- CoagentSession
\* query(prompt): the first branch whose keywords the prompt contains; the
\* kind of pending operation it creates, or "" for a branch that answers
\* without approval
query_kind(words) ==
  IF "available" \in words /\ "room" \in words THEN ""
  ELSE IF ("reservation" \in words /\ "room" \in words)
          \/ "create a reservation" \in words THEN "hotel_reservation"
  ELSE IF "check inventory" \in words THEN ""
  ELSE IF "delivery note" \in words \/ "pack order" \in words
    THEN "retail_fulfillment"
  ELSE IF "sepsis" \in words \/ "order set" \in words \/ "orders" \in words
    THEN "hospital_order_set"
  ELSE IF "interview" \in words \/ "interviews" \in words
    THEN "education_interviews"
  ELSE IF "check material" \in words
          \/ ("materials" \in words /\ "check" \in words) THEN ""
  ELSE IF "requisition" \in words \/ "purchase requisitions" \in words
    THEN "mfg_requisitions"
  ELSE ""

\* what approve returns for a pending operation of the given kind
approve_result(kind) ==
  IF kind = "hotel_reservation" THEN "reservation_id"
  ELSE IF kind = "retail_fulfillment" THEN "delivery_note"
  ELSE IF kind = "hospital_order_set" THEN "orders_created"
  ELSE IF kind = "education_interviews" THEN "interviews_scheduled"
  ELSE IF kind = "mfg_requisitions" THEN "requisitions_created"
  ELSE ""

\* session.query(prompt): a branch that needs approval draws a uuid4,
\* files the operation under it in _pending and returns it
CoagentQuery(s, prompt) ==
  LET kind == query_kind(Contains(prompt))
      approval_id == coagent.uuids + 1 IN
  /\ kind # "" => coagent.uuids < MaxApprovalIds
  /\ coagent' =
       IF kind = ""
         THEN [coagent EXCEPT
                 !.last = [NoCoagentCall EXCEPT !.op = "query", !.session = s,
                                                !.prompt = prompt]]
       ELSE [coagent EXCEPT
               !.pending[s] = (approval_id :> kind) @@ @,
               !.uuids = approval_id,
               !.issued[s] = @ \cup {approval_id},
               !.last = [NoCoagentCall EXCEPT
                           !.op = "query", !.session = s, !.prompt = prompt,
                           !.requires_approval = TRUE,
                           !.approval_id = approval_id]]
  /\ UNCHANGED <<service, helpers, sm, bulk, o2c>>

\* approve that looks the id up and leaves it pending
approve_kept(pending, approval_id) ==
  IF approval_id \notin DOMAIN pending
    THEN [pending |-> pending, status |-> "error",
          error |-> "invalid_approval_id", result |-> ""]
  ELSE IF approve_result(pending[approval_id]) = ""
    THEN [pending |-> pending,
          status |-> "error", error |-> "unknown_pending_kind", result |-> ""]
  ELSE [pending |-> pending,
        status |-> "success", error |-> "",
        result |-> approve_result(pending[approval_id])]

\* approve(approval_id) on a session's _pending: the entry is popped; no
\* entry is an invalid_approval_id error
approve(pending, approval_id) ==
  IF approval_id \notin DOMAIN pending
    THEN [pending |-> pending, status |-> "error",
          error |-> "invalid_approval_id", result |-> ""]
  ELSE IF approve_result(pending[approval_id]) = ""
    THEN [pending |-> [id \in DOMAIN pending \ {approval_id} |-> pending[id]],
          status |-> "error", error |-> "unknown_pending_kind", result |-> ""]
  ELSE [pending |-> [id \in DOMAIN pending \ {approval_id} |-> pending[id]],
        status |-> "success", error |-> "",
        result |-> approve_result(pending[approval_id])]

\* session.approve(approval_id), with an id some session was given or one
\* that was never issued
CoagentApprove(s, approval_id) ==
  LET out == approve(coagent.pending[s], approval_id) IN
  /\ approval_id \in 1..coagent.uuids \/ approval_id = MaxApprovalIds + 1
  /\ coagent' = [coagent EXCEPT
        !.pending[s] = out.pending,
        !.approved[s] = IF out.status = "success" THEN @ \cup {approval_id} ELSE @,
        !.performed = IF out.status = "success"
                        THEN @ \cup {<<s, approval_id, out.result>>} ELSE @,
        !.last = [NoCoagentCall EXCEPT
                    !.op = "approve", !.session = s,
                    !.approval_id = approval_id,
                    !.status = out.status, !.error = out.error,
                    !.result = out.result]]
  /\ UNCHANGED <<service, helpers, sm, bulk, o2c>>

NextCoagent ==
  \/ \E s \in Sessions, prompt \in Prompts : CoagentQuery(s, prompt)
  \/ \E s \in Sessions, id \in 1..(MaxApprovalIds + 1) : CoagentApprove(s, id)

SpecCoagent == InitLoadSerial /\ [][NextCoagent]_vars

\* -------------------------------------------------------- hotel_o2c_graph
\* check_availability(state): the placeholder rooms are stored; were there
\* none, the run would be marked failed
check_availability(state) ==
  LET found == [state EXCEPT !.available_rooms = PlaceholderRooms] IN
  IF ~O2cFound(found.available_rooms)
    THEN [found EXCEPT !.status = "failed",
                       !.error = "No rooms available for selected dates"]
  ELSE found

\* should_continue(state): the node after check_availability
should_continue(state) ==
  IF O2cSet(state.error) THEN "end"
  ELSE IF O2cFound(state.available_rooms) THEN "create_reservation"
  ELSE "end"

\* create_reservation(state): `if not state["available_rooms"]` raises
\* KeyError when the key is missing; otherwise the first available room is
\* reserved
create_reservation(state) ==
  IF state.available_rooms = AbsentRooms THEN Raise(state, "KeyError")
  ELSE IF ~O2cFound(state.available_rooms)
    THEN Update(state, "confirm_payment")
  ELSE Update([state EXCEPT !.selected_room = state.available_rooms[1],
                            !.reservation_id = "RES-NEW"],
              "confirm_payment")

\* confirm_payment that confirms nothing
confirm_payment_skipped(state) == Update(state, "send_confirmation")

\* confirm_payment(state): `if not state["reservation_id"]` raises KeyError
\* when the key is missing; otherwise it auto-confirms once there is a
\* reservation
confirm_payment(state) ==
  IF state.reservation_id = Absent THEN Raise(state, "KeyError")
  ELSE IF ~O2cSet(state.reservation_id)
    THEN Update(state, "send_confirmation")
  ELSE Update([state EXCEPT !.payment_confirmed = "True"], "send_confirmation")

\* send_confirmation(state): `if not state["payment_confirmed"]` raises
\* KeyError when the key is missing; otherwise the confirmation is sent once
\* the payment is confirmed
send_confirmation(state) ==
  IF state.payment_confirmed = Absent THEN Raise(state, "KeyError")
  ELSE IF ~O2cSet(state.payment_confirmed) THEN Update(state, END)
  ELSE Update([state EXCEPT !.confirmation_sent = "True",
                            !.status = "confirmed"], END)

\* the run after a node: the node's update is applied and the edge leads
\* on; a node that raised ends ainvoke with its exception. Under the
\* adapter the update comes as the item {node: update} of graph.astream and
\* goes through the body of the adapter's loop; an exception goes to the
\* adapter's except clause, which yields workflow_error and ends.
O2cAfter(node, res, did) ==
  LET chunk == UpdatesChunk(node, res.st)
      stepNo == o2c.a_current_step
                  + (IF CurrentNode(chunk) # NoStep THEN 1 ELSE 0)
  IN
  IF res.kind = "raise"
    THEN [o2c EXCEPT
            !.pc = "raised",
            !.events = IF o2c.stream
                         THEN Append(@, Event("workflow_error", NoStep,
                                              ErrorState(res.err), NoPct))
                         ELSE @]
  ELSE IF ~o2c.stream
    THEN [o2c EXCEPT !.state = res.st,
                     !.pc = IF res.goto = END THEN "ended" ELSE res.goto,
                     !.did = @ \o did,
                     !.ndisp = @ + 1, !.node = node]
  ELSE [o2c EXCEPT !.state = res.st,
                   !.pc = IF res.goto = END \/ ChunkBreaks(chunk)
                            THEN "exhausted" ELSE res.goto,
                   !.did = @ \o did,
                   !.ndisp = @ + 1, !.node = node,
                   !.a_current_step = stepNo,
                   !.events = @ \o ChunkEvents(chunk, stepNo, o2c.total_steps)]

\* what a node did, for the record of the run
O2cDid(before, after, event) == IF after # before THEN <<event>> ELSE << >>

O2cCheckAvailability ==
  /\ o2c.pc = "check_availability"
  /\ LET after == check_availability(o2c.state)
         goto == IF should_continue(after) = "end" THEN END
                 ELSE should_continue(after)
     IN  o2c' = O2cAfter("check_availability", Update(after, goto),
                         <<"rooms_found">>)
  /\ UNCHANGED <<service, helpers, sm, bulk, coagent>>

O2cCreateReservation ==
  /\ o2c.pc = "create_reservation"
  /\ LET res == create_reservation(o2c.state) IN
     o2c' = O2cAfter("create_reservation", res,
                     O2cDid(o2c.state, res.st, "reservation_created"))
  /\ UNCHANGED <<service, helpers, sm, bulk, coagent>>

O2cConfirmPayment ==
  /\ o2c.pc = "confirm_payment"
  /\ LET res == confirm_payment(o2c.state) IN
     o2c' = O2cAfter("confirm_payment", res,
                     IF O2cSet(o2c.state.reservation_id)
                        /\ res.st.payment_confirmed = "True"
                       THEN <<"payment_confirmed">> ELSE << >>)
  /\ UNCHANGED <<service, helpers, sm, bulk, coagent>>

O2cSendConfirmation ==
  /\ o2c.pc = "send_confirmation"
  /\ LET res == send_confirmation(o2c.state) IN
     o2c' = O2cAfter("send_confirmation", res,
                     IF O2cSet(o2c.state.payment_confirmed)
                        /\ res.st.confirmation_sent = "True"
                       THEN <<"confirmation_sent">> ELSE << >>)
  /\ UNCHANGED <<service, helpers, sm, bulk, coagent>>

\* AGUIStreamAdapter.stream_workflow_execution(hotel_o2c_graph,
\* initial_state) up to the first item of astream: workflow_start is
\* yielded. hotel_o2c_graph is compiled without a checkpointer, so the
\* runtime takes the call that names no thread.
O2cStreamStart ==
  /\ o2c.pc = "new"
  /\ o2c' = [o2c EXCEPT
        !.pc = "check_availability",
        !.events = << Event("workflow_start", NoStep, o2c.input, NoPct) >>]
  /\ UNCHANGED <<service, helpers, sm, bulk, coagent>>

\* the loop over astream is over: workflow_complete with the last item as
\* its state and progress {current_step, total_steps or current_step,
\* percentage: 100}
O2cStreamComplete ==
  /\ o2c.pc = "exhausted"
  /\ o2c' = [o2c EXCEPT
        !.pc = "ended",
        !.events = Append(@, Event("workflow_complete", NoStep,
                                   UpdatesChunk(o2c.node, o2c.state), 100))]
  /\ UNCHANGED <<service, helpers, sm, bulk, coagent>>

\* the initial states of a run: check_in, check_out and guest_count, and
\* any of the optional fields
O2cInitialStates ==
  {[NoO2cState EXCEPT
      !.error = e, !.available_rooms = rooms,
      !.reservation_id = r, !.payment_confirmed = pay,
      !.confirmation_sent = sent, !.status = st] :
     e \in O2cErrors, r \in O2cReservations, pay \in O2cFlags,
     sent \in O2cFlags, st \in O2cStatuses, rooms \in O2cRooms}

\* the services beside the run are idle
O2cAlone ==
  /\ ServiceIdle(FALSE)
  /\ approval = NoApproval
  /\ retry = NoRetry
  /\ keyspace = EmptyKeyspace
  /\ sm = NoSm
  /\ bulk = NoBulk
  /\ coagent = NoCoagent

\* hotel_o2c_graph.ainvoke(initial_state) for every initial state that
\* carries check_in, check_out and guest_count and any of the optional
\* fields
InitO2c ==
  /\ O2cAlone
  /\ \E initial_state \in O2cInitialStates :
       o2c = [NoO2c EXCEPT !.pc = "check_availability",
                           !.input = initial_state, !.state = initial_state]

NextO2c ==
  \/ O2cCheckAvailability
  \/ O2cCreateReservation
  \/ O2cConfirmPayment
  \/ O2cSendConfirmation

\* the runtime runs a started graph to its end
SpecO2c == InitO2c /\ [][NextO2c]_vars /\ WF_vars(NextO2c)

\* the total_steps a caller of SSEWorkflowStreamer.stream_workflow gives:
\* none (0), the graph's four nodes, or an estimate below them
O2cTotalSteps == {0, 3, 4}

\* SSEWorkflowStreamer.stream_workflow(hotel_o2c_graph, "hotel_o2c",
\* initial_state, total_steps), iterated by its consumer to the end
InitO2cStream ==
  /\ O2cAlone
  /\ \E initial_state \in O2cInitialStates, total_steps \in O2cTotalSteps :
       o2c = [NoO2c EXCEPT !.pc = "new", !.stream = TRUE,
                           !.total_steps = total_steps,
                           !.input = initial_state, !.state = initial_state]

NextO2cStream ==
  \/ O2cStreamStart
  \/ O2cCheckAvailability
  \/ O2cCreateReservation
  \/ O2cConfirmPayment
  \/ O2cSendConfirmation
  \/ O2cStreamComplete

SpecO2cStream == InitO2cStream /\ [][NextO2cStream]_vars

\* ------------------------------------------------------------- properties
\* the repository's own operations (graph.ainvoke called directly is the
\* runtime's reference behaviour)
OwnApi(rr) == rr.api \in {"http", "executor"}

Answered(rr) == rr.pc = "responded"

\* state.get("pending_approval") is truthy
PendingOf(st) == Has(st, "pending_approval") /\ st.pending_approval

\* the final state a request hands back to its caller
FinalStateOf(rr) ==
  IF rr.api = "http" /\ ~rr.emit THEN rr.response.final_state
  ELSE rr.result.final_state

HasEvent(evs, type) == \E i \in 1..Len(evs) : evs[i].type = type

\* the drive of the request ended because a node suspended in interrupt()
DriveSuspended(rr) == rr.result.done /\ rr.result.final_state.interrupt

\* C1: a resume of a suspended thread with decision d hands back the final
\* state of the run that continues from the thread's latest checkpoint with d
\* as the value of the suspended interrupt() call (for executor.resume, which
\* takes no decision, with some decision).
C1_ResumeConsistency ==
  \A r \in Slots :
    LET rr == run[r]
    IN  (Answered(rr) /\ OwnApi(rr) /\ rr.op = "resume"
           /\ rr.from.exists /\ rr.from.interrupted)
        => \E d \in (IF rr.dec = NoDecision THEN Decisions ELSE {rr.dec}) :
             FinalStateOf(rr) =
               RunFrom(graph, rr.from.st, rr.from.next, 0,
                       DEFAULT_RECURSION_LIMIT, d).st

\* C2: an execute whose drive suspended for approval is answered with
\* interrupted = true, HTTP status "paused" without streaming and a final
\* workflow_paused event with streaming; it is never reported as completed.
C2_SuspensionReported ==
  \A r \in Slots :
    LET rr == run[r]
    IN  (Answered(rr) /\ OwnApi(rr) /\ rr.op = "execute" /\ DriveSuspended(rr))
        => /\ rr.result.interrupted
           /\ (rr.api = "http" /\ ~rr.emit) => rr.response.status = "paused"
           /\ (rr.api = "http" /\ rr.emit) =>
                 rr.http[Len(rr.http)].type = "workflow_paused"

\* C3: a resume naming a thread without a checkpoint fails with
\* unknown-thread, one naming a thread that is not suspended fails with
\* not-suspended; no node is dispatched, no event emitted, no checkpoint
\* changed.
C3_ResumeRefused ==
  \A r \in Slots :
    LET rr == run[r]
        why == IF rr.from.exists THEN "not-suspended" ELSE "unknown-thread"
    IN  (Answered(rr) /\ OwnApi(rr) /\ rr.op = "resume"
           /\ ~(rr.from.exists /\ rr.from.interrupted))
        => /\ IF rr.api = "http"
                THEN rr.response.status = "error" /\ rr.response.error = why
                ELSE ~rr.result.success /\ rr.result.error = why
           /\ rr.ndisp = 0
           /\ rr.sink = << >> /\ rr.http = << >>
           /\ ckpt[rr.ckid] = rr.from

\* C4: in the events of one run, in the sink and on the HTTP stream, a
\* workflow_complete or workflow_rejected event is the last event.
NoEventAfterTerminal(evs) ==
  \A i \in 1..Len(evs) :
    evs[i].type \in {"workflow_complete", "workflow_rejected"} => i = Len(evs)

C4_TerminalClosure ==
  \A r \in Slots :
    NoEventAfterTerminal(run[r].sink) /\ NoEventAfterTerminal(run[r].http)

\* a streaming /execute has been answered to the end: the executor's events
\* were written, the adapter's workflow_error among them, and the handler's
\* workflow_complete closes the response
C4_StreamClosedByComplete ==
  \E r \in Slots :
    LET rr == run[r]
    IN  /\ rr.api = "http" /\ rr.op = "execute" /\ rr.emit
        /\ rr.pc = "responded" /\ ~rr.closed
        /\ Len(rr.http) = 3
        /\ rr.http[2].type = "workflow_error"
        /\ rr.http[3].type = "workflow_complete"

\* C5: an execute in which a node body raised is answered as a failure whose
\* final state is rejected and carries an error record; with events on, a
\* workflow_error event was emitted and no workflow_complete event.
NodeRaised(rr) ==
  \/ rr.result.done /\ rr.result.error = "KeyError"
  \/ \E i \in 1..Len(rr.sink) :
        rr.sink[i].type = "workflow_error" /\ rr.sink[i].state.error = "KeyError"

C5_NodeFailureRejected ==
  \A r \in Slots :
    LET rr == run[r]
    IN  (Answered(rr) /\ OwnApi(rr) /\ rr.op = "execute" /\ NodeRaised(rr))
        => /\ ~rr.result.success
           /\ rr.result.final_state.current_step = "rejected"
           /\ Len(rr.result.final_state.errors) > 0
           /\ rr.emit => /\ HasEvent(rr.sink, "workflow_error")
                         /\ ~HasEvent(rr.sink, "workflow_complete")
                         /\ ~HasEvent(rr.http, "workflow_complete")

\* C6: no two requests drive the same thread id at the same time.
C6_SingleDrivePerThread ==
  \A r1 \in Slots, r2 \in Slots :
    (r1 # r2 /\ run[r1].pc = "driving" /\ run[r2].pc = "driving")
    => run[r1].tid # run[r2].tid

\* C7: a drive never dispatches more nodes than the configured
\* recursion_limit, and a run stopped by the limit is answered as a failure
\* whose final state is rejected, with a workflow_error event when events
\* are on.
C7_RecursionBound ==
  \A r \in Slots :
    LET rr == run[r]
    IN  (OwnApi(rr) /\ rr.op = "execute")
        => /\ rr.ndisp <= rr.cfgLimit
           /\ (Answered(rr) /\ rr.result.error = "GraphRecursionError")
                => /\ ~rr.result.success
                   /\ rr.result.final_state.current_step = "rejected"

\* C8: pending_approval is true exactly while the run is suspended and not
\* yet resumed: in every checkpoint of a thread the flag equals the
\* suspension mark, and in every event sequence the flag of the run's state
\* is set exactly when the last event is approval_required or workflow_paused.
LastIsSuspension(evs) ==
  Len(evs) > 0 /\ evs[Len(evs)].type \in {"approval_required", "workflow_paused"}

C8_PendingIffSuspended ==
  /\ \A t \in AllThreads :
        ckpt[t].exists => (PendingOf(ckpt[t].st) <=> ckpt[t].interrupted)
  /\ \A r \in Slots :
        (run[r].emit /\ run[r].pc \in {"streaming", "task_done", "responded"})
        => (PendingOf(run[r].st) <=> LastIsSuspension(run[r].sink))

\* C9: a run that has passed a terminal node has current_step completed or
\* rejected and pending_approval = false.
C9_TerminalState ==
  \A r \in Slots :
    LET rr == run[r]
    IN  (rr.pc # "idle" /\ rr.next = END /\ rr.ndisp > 0)
        => /\ Has(rr.st, "current_step")
           /\ rr.st.current_step \in {"completed", "rejected"}
           /\ Has(rr.st, "pending_approval")
           /\ ~rr.st.pending_approval

\* C10: in every state of a run, the initial one included, current_step is
\* the name of a node of the graph, or completed, or rejected.
StepNames(g) == NodesOf(g) \cup {"completed", "rejected"}

C10_CurrentStepNamesNode ==
  \A r \in Slots :
    LET rr == run[r]
    IN  (rr.pc \in {"driving", "streaming"} /\ Has(rr.st, "current_step"))
        => rr.st.current_step \in StepNames(graph)

\* C11: while a resume drives a thread, every checkpoint it writes for the
\* thread records at least as many steps as the checkpoint before it, and
\* one dispatch records at most one step more.
C11_MonotoneSteps ==
  [][\A r \in Slots :
       LET rr == run[r]
           before == ckpt[rr.tid].st.steps_completed
           after == ckpt'[rr.tid].st.steps_completed
       IN  (rr.pc = "driving" /\ rr.op = "resume"
              /\ ckpt[rr.tid].exists /\ ckpt'[rr.tid].exists)
           => Len(before) <= Len(after) /\ Len(after) <= Len(before) + 1]_vars

\* a stream of events is over and the drive behind it has left its run
\* suspended at a gate: a streaming execute whose result is a run suspended
\* in interrupt(), or a stream of server.stream_workflow_execution whose
\* last item of astream was the "__interrupt__" item
StreamSuspended(rr) ==
  \/ /\ Answered(rr) /\ OwnApi(rr) /\ rr.op = "execute" /\ rr.emit
     /\ DriveSuspended(rr)
  \/ /\ Answered(rr) /\ rr.api = "legacy"
     /\ rr.chunk.interrupt

\* the events the run's consumer has been given
StreamOf(rr) == IF rr.api = "http" THEN rr.http ELSE rr.sink

Precedes(evs, a, b) ==
  \E i \in 1..Len(evs), j \in 1..Len(evs) :
    i < j /\ evs[i].type = a /\ evs[j].type = b

\* C12: a streaming drive that suspended at a gate has emitted an
\* approval_required event and, after it, a workflow_paused event.
C12_ApprovalBeforePaused ==
  \A r \in Slots :
    LET rr == run[r]
    IN  StreamSuspended(rr)
        => /\ HasEvent(rr.sink, "approval_required")
           /\ rr.api # "executor" =>
                Precedes(StreamOf(rr), "approval_required", "workflow_paused")

\* C13: on the response of a streaming /execute the executor's events appear
\* exactly once and in the executor's order: while the task runs, and after
\* the client has closed the response, the response is the first
\* last_emitted events of the buffer; a response the handler has finished
\* is the whole buffer followed by the handler's final event.
C13_ExactlyOnceInOrder ==
  \A r \in Slots :
    LET rr == run[r]
    IN  (rr.api = "http" /\ rr.op = "execute" /\ rr.emit)
        => /\ (rr.pc \in {"streaming", "task_done"} \/ rr.closed)
                => rr.http = SubSeq(rr.sink, 1, rr.last_emitted)
           /\ (rr.pc = "responded" /\ ~rr.closed)
                => rr.http = rr.sink \o << FinalEvent(rr.result) >>

\* a finished response whose task ended between two writes: some events
\* were written while the task ran, the others after the task was done
C13_FinishedBetweenPolls ==
  \E r \in Slots :
    /\ run[r].pc = "responded" /\ run[r].api = "http" /\ run[r].emit
    /\ ~run[r].closed
    /\ run[r].unwritten_at_done > 0
    /\ run[r].unwritten_at_done < Len(run[r].sink)

\* C14: for a drive with events, the state carried by the last event of the
\* sink, and by the last event of the HTTP stream, is the final_state of the
\* result the executor returned, also when the drive ended in an error.
LastState(evs) == evs[Len(evs)].state

C14_EventStateAgreement ==
  \A r \in Slots :
    LET rr == run[r]
    IN  (Answered(rr) /\ OwnApi(rr) /\ rr.emit /\ rr.result.done)
        => /\ Len(rr.sink) > 0 => LastState(rr.sink) = rr.result.final_state
           /\ rr.api = "http" => LastState(rr.http) = rr.result.final_state

\* an execute of the executor (called directly or behind /execute) that has
\* run, with an initial state the registry rejects; behind a streaming
\* /execute it runs in the task the response body creates
RejectedExecute(rr) ==
  /\ rr.pc # "idle"
  /\ rr.api = "http" /\ rr.emit => rr.task /\ rr.pc # "created"
  /\ rr.op = "execute"
  /\ rr.api \in {"executor", "http"}
  /\ ~validate_initial_state(graph, PayloadOf(graph, rr.input)).ok

\* what a rejected execute has left behind
C15_Rejected ==
  \A r \in Slots :
    LET rr == run[r] IN
      RejectedExecute(rr) =>
        /\ rr.pc \in {"task_done", "responded"}
        /\ rr.result.done /\ ~rr.result.success /\ ~rr.result.interrupted
        /\ rr.result.error = "State validation failed"
        /\ rr.result.detail =
             validate_initial_state(graph, PayloadOf(graph, rr.input)).error
        /\ rr.result.detail.kind = "missing"
        /\ rr.result.final_state = rr.input
        /\ rr.sink = << >>
        /\ rr.ndisp = 0
        /\ rr.next = END /\ rr.st = EmptyState
        /\ rr.a_steps = << >>

\* the step in which a rejected execute runs leaves the registry's cache of
\* loaded graphs as it was
C15_NothingLoaded ==
  \A r \in Slots :
    (~RejectedExecute(run[r]) /\ RejectedExecute(run'[r]))
      => UNCHANGED <<loaded_graphs, created>>

\* C15: execute with an initial state that fails registry validation returns
\* a result with success = false that carries the validation message and the
\* initial state, puts no event into the event sink, and never loads or
\* dispatches the graph (no drive is started and no node runs).
C15_InvalidStateRejected ==
  [](C15_Rejected) /\ [][C15_NothingLoaded]_vars

\* an executor's execute with an event callback and an invalid state has
\* returned
C15_InvalidExecuteReturned ==
  \E r \in Slots :
    /\ RejectedExecute(run[r])
    /\ run[r].api = "executor" /\ run[r].emit
    /\ run[r].pc = "responded"
    /\ ~run[r].result.success

\* C16: a POST /execute whose initial state lacks required fields is answered
\* with a 400-class status and a message naming the missing fields, with no
\* event written to the response, whether stream is set or not.
C16_MissingFieldsAnswered400 ==
  \A r \in Slots :
    LET rr == run[r]
        verdict == validate_initial_state(graph, PayloadOf(graph, rr.input))
    IN  (/\ rr.api = "http" /\ rr.op = "execute" /\ rr.pc = "responded"
         /\ ~verdict.ok /\ verdict.error.kind = "missing")
          => /\ status_code(graph) \in 400..499
             /\ rr.result.detail = verdict.error
             /\ rr.http = << >>

\* a finished call of the validator
Validated(rr) == rr.pc = "responded" /\ rr.op = "validate"

\* the schema fields a verdict flags as missing
Flagged(verdict) ==
  IF verdict.error.kind = "missing"
    THEN {verdict.error.fields[i] : i \in 1..Len(verdict.error.fields)}
  ELSE {}

AbsentRequired(g, p) == (SchemaFields(g) \ OptionalFields(g)) \ p.present

\* C17: for every registered descriptor and every initial state, the fields
\* the validator flags as missing are exactly the schema fields without the
\* optional marker that the state lacks (each named once); it returns ok only
\* when none is lacking; a field with the optional marker is never flagged.
C17_MissingExactlyRequired ==
  \A r \in Slots :
    LET v == run[r].verdict IN
      Validated(run[r]) =>
        /\ Flagged(v) = AbsentRequired(graph, input)
        /\ Len(v.error.fields) = Cardinality(Flagged(v)) \/ v.error.kind # "missing"
        /\ v.ok => AbsentRequired(graph, input) = {}
        /\ AbsentRequired(graph, input) # {} => ~v.ok /\ v.error.kind = "missing"
        /\ Flagged(v) \cap OptionalFields(graph) = {}

\* a hospital state lacking two required fields and the optional one has
\* been validated
C17_RequiredAndOptionalAbsent ==
  \E r \in Slots :
    /\ Validated(run[r])
    /\ graph = "hospital_admissions"
    /\ input.present = {"patient_name"}
    /\ run[r].verdict.error.fields = <<"admission_date", "primary_diagnosis">>

\* C18: for an input whose required schema fields are all present and whose
\* fields are well-typed the validator returns ok whatever base fields are
\* supplied; each base field the input lacks is then set to its default
\* (messages = [], step_count = 0, the others null) and each base field the
\* input supplies keeps its value.
C18_BaseFieldsAutoFilled ==
  \A r \in Slots :
    LET v == run[r].verdict IN
      (/\ Validated(run[r])
       /\ AbsentRequired(graph, input) = {}
       /\ input.illtyped = {})
        => /\ v.ok
           /\ v.state.present = input.present
           /\ \A f \in ValidatorBaseFields :
                v.state.base[f] =
                  IF input.base[f] # Absent THEN input.base[f]
                  ELSE IF f = "messages" THEN "[]"
                  ELSE IF f = "step_count" THEN "0"
                  ELSE "None"

\* a well-formed state that supplies session_id but neither messages nor
\* step_count has been validated
C18_SomeBaseFieldsSupplied ==
  \E r \in Slots :
    /\ Validated(run[r])
    /\ run[r].verdict.ok
    /\ input.base["session_id"] = "given"
    /\ input.base["messages"] = Absent
    /\ input.base["step_count"] = Absent
    /\ run[r].verdict.state.base["messages"] = "[]"

\* C19: once validation has succeeded, the initial state a run is started
\* with (the caller's keys and those the validator filled in) carries every
\* base run-state field: current_step, steps_completed, errors,
\* pending_approval and approval_decision.
C19_RunStartsWithBaseFields ==
  \A r \in Slots :
    LET rr == run[r] IN
      (/\ rr.pc # "idle"
       /\ rr.op = "execute"
       /\ rr.api \in {"executor", "http"}
       /\ validate_initial_state(graph, PayloadOf(graph, rr.input)).ok)
        => BaseKeys \subseteq (rr.input.has \cup ValidatorBaseFields)

\* C20: what a reader (get, get_latest, list) returns for a thread is drawn
\* from the store as it was before or after a complete put, for one of the
\* puts between the reader's start and its return: with n puts complete no
\* checkpoint later than n is seen and the metadata seen is that of put n. It
\* never combines a new checkpoint with metadata the put has not written yet.
C20_NoTornRead ==
  LET rd == client.reader IN
    (rd.pc = "returned" /\ ~rd.elapsed) =>
      \E n \in rd.since .. client.writer.id :
        /\ \A i \in 1..Len(rd.checkpoints) : rd.checkpoints[i] <= n
        /\ \A i \in 1..Len(rd.metadata) : rd.metadata[i] = n

\* the thread's checkpoints Redis still holds
Unexpired == {k \in CheckpointIds : redis.checkpoint[k].ttl > 0}

\* a call of the reader that has returned; since it began the clock has not
\* ticked and no put has begun
QuietCall(op) ==
  /\ client.reader.pc = "returned"
  /\ client.reader.op = op
  /\ ~client.reader.elapsed
  /\ client.reader.begun = client.writer.id

\* C21: after any sequence of puts and expirations get_latest returns none
\* exactly when the thread has no unexpired checkpoint, and otherwise the
\* unexpired checkpoint with the greatest timestamp.
C21_LatestUnexpired ==
  QuietCall("get_latest") =>
    /\ client.reader.checkpoints = << >> <=> Unexpired = {}
    /\ Unexpired # {} =>
         /\ Len(client.reader.checkpoints) = 1
         /\ client.reader.checkpoints[1] \in Unexpired
         /\ \A k \in Unexpired :
              redis.checkpoint[k].ts
                <= redis.checkpoint[client.reader.checkpoints[1]].ts

\* get_latest has returned the first checkpoint after the two later ones
\* expired
C21_LaterOnesExpired ==
  /\ QuietCall("get_latest")
  /\ client.writer.n = 3
  /\ Unexpired = {1}
  /\ client.reader.checkpoints = << 1 >>

\* C22: a checkpoint is written with the full TTL and stays readable exactly
\* while time to live is left, which only the clock takes away, one tick at a
\* time. With extend_on_access a get or get_latest that returns a checkpoint
\* has restarted the full TTL of that checkpoint and of the thread metadata
\* when it returns, and has touched no other key; without extend_on_access no
\* read changes any expiry.
C22_TtlExtension ==
  [][ LET rd == client.reader
          after == client'.reader
          w == client.writer
          reading == after.pc # rd.pc /\ client'.writer = w
          ticking == client'.writer = w /\ after.pc = rd.pc /\ redis' # redis
      IN
      /\ (w.pc = "idle" /\ client'.writer.pc = "metadata")
           => redis'.checkpoint[client'.writer.id].ttl = TtlTicks
      /\ (reading /\ rd.pc = "idle" /\ after.op = "get")
           => (after.checkpoints = << after.arg >>
                 <=> redis.checkpoint[after.arg].ttl > 0)
      /\ (reading /\ after.pc = "returned" /\ after.op \in {"get", "get_latest"}
            /\ after.checkpoints # << >> /\ redis.extend_on_access)
           => /\ redis'.checkpoint[after.checkpoints[1]].ttl = TtlTicks
              /\ redis'.metadata.ttl = TtlTicks
      /\ (reading /\ rd.pc \in {"extend", "extend_metadata"})
           => \A j \in CheckpointIds \ {rd.checkpoints[1]} :
                redis'.checkpoint[j] = redis.checkpoint[j]
      /\ (reading /\ ~redis.extend_on_access) => redis' = redis
      /\ ticking
           => /\ \A k \in CheckpointIds :
                   redis'.checkpoint[k].ttl =
                     IF redis.checkpoint[k].ttl > 0
                       THEN redis.checkpoint[k].ttl - 1 ELSE 0
              /\ redis'.metadata.ttl =
                   IF redis.metadata.ttl > 0 THEN redis.metadata.ttl - 1 ELSE 0
    ]_vars

\* C23: a put overwrites no prior checkpoint. The step that writes a new
\* checkpoint leaves every key of an earlier checkpoint as it is, every
\* checkpoint Redis holds is the one stored under its id, and a get of an
\* earlier checkpoint that has not expired returns that checkpoint.
C23_PutOverwritesNothing ==
  [][ LET w == client.writer
          rd == client.reader
          after == client'.reader
      IN
      /\ (w.pc = "idle" /\ client'.writer.pc = "metadata")
           => \A k \in 1..w.n :
                /\ redis'.checkpoint[k] = redis.checkpoint[k]
                /\ redis.checkpoint[k].ttl > 0
                     => redis.checkpoint[k].id = k /\ redis.checkpoint[k].ts = k
      /\ (rd.pc = "idle" /\ after.op = "get" /\ after.arg <= w.n
            /\ redis.checkpoint[after.arg].ttl > 0)
           => after.checkpoints = << after.arg >>
    ]_vars

\* the first checkpoint has been retrieved after two more were put
C23_FirstRetrievedAfterThree ==
  /\ client.writer.n = 3
  /\ client.reader.pc = "returned"
  /\ client.reader.op = "get"
  /\ client.reader.begun = 3
  /\ client.reader.checkpoints = << 1 >>

\* C24: list yields every unexpired checkpoint of the thread exactly once,
\* oldest first by timestamp.
C24_ListOldestFirst ==
  QuietCall("list") =>
    LET yielded == client.reader.checkpoints IN
      /\ {yielded[i] : i \in 1..Len(yielded)} = Unexpired
      /\ Len(yielded) = Cardinality(Unexpired)
      /\ \A i, j \in 1..Len(yielded) :
           i < j => redis.checkpoint[yielded[i]].ts < redis.checkpoint[yielded[j]].ts

\* C25: load is safe under concurrent callers. Whatever the interleaving of
\* concurrent load calls for one name, at most one caller at a time is
\* between the cache check and the cache write for that name, the graph
\* factory of the name runs at most once, and all callers get the same
\* compiled graph.
C25_LoadOnce ==
  \A a, b \in Slots :
    LET la == loading[a]
        lb == loading[b]
    IN
    /\ la.graph_name \in GraphNames => created[la.graph_name] <= 1
    /\ (a # b /\ la.graph_name = lb.graph_name)
         => /\ ~(la.pc \in {"create", "store"} /\ lb.pc \in {"create", "store"})
            /\ (la.pc = "returned" /\ lb.pc = "returned") => la.graph = lb.graph

\* C26: after a successful load of a name every later load of it returns the
\* identical compiled graph without running the factory again, and a load
\* that fails leaves the cache unchanged. A load that returns has its graph
\* in the cache; a cached graph is never replaced; a load that finds the name
\* cached returns the cached graph and runs no factory; a step that raises
\* changes no cache entry.
C26_LoadCached ==
  [][ \A c \in Slots :
        LET l == loading[c]
            after == loading'[c]
        IN
        /\ \A n \in GraphNames :
             loaded_graphs[n] # NoGraph
               => loaded_graphs'[n] = loaded_graphs[n] /\ created'[n] = created[n]
        /\ (l.pc # "returned" /\ after.pc = "returned")
             => /\ after.graph # NoGraph
                /\ loaded_graphs'[after.graph_name] = after.graph
        /\ (l.pc = "idle" /\ after.pc # "idle" /\ after.graph_name \in GraphNames
              /\ loaded_graphs[after.graph_name] # NoGraph)
             => /\ after.pc = "returned"
                /\ after.graph = loaded_graphs[after.graph_name]
                /\ created' = created
        /\ (l.pc # "raised" /\ after.pc = "raised")
             => loaded_graphs' = loaded_graphs
    ]_vars

\* a second load of a name has returned the graph the first one built
C26_SecondLoadHitsCache ==
  \E c \in Slots :
    /\ loading[c].pc = "returned"
    /\ nreq >= 2
    /\ created[loading[c].graph_name] = 1
    /\ loading[c].graph = 1
    /\ \A n \in GraphNames \ {loading[c].graph_name} : created[n] = 0

\* the position of a name in the registration order
Registered(name) == CHOOSE i \in 1..Len(WORKFLOWS) : WORKFLOWS[i] = name

\* C27 (amended): list_workflows returns exactly the descriptors whose
\* industry equals the given industry, whose tags intersect the given tag set
\* and whose capabilities satisfy the given predicate, each condition
\* applying only when its argument is passed and not empty, each descriptor
\* once and in registration order; the descriptor table is left unchanged.
C27_ListFilters ==
  listing.pc = "returned" =>
    LET a == listing.args
        out == listing.workflows
        wanted ==
          {n \in GraphNames :
             /\ Truthy(a.industry) => Industry(n) = a.industry.value
             /\ TruthySet(a.tags) => \E t \in a.tags.value : t \in Tags(n)
             /\ a.capability_filter.given
                  => ApplyFilter(a.capability_filter.value, Capabilities(n))}
    IN
    /\ {out[i] : i \in 1..Len(out)} = wanted
    /\ \A i, j \in 1..Len(out) : i < j => Registered(out[i]) < Registered(out[j])
    /\ listing.WORKFLOWS = WORKFLOWS

\* C27 as stated: every argument that is passed filters, an empty industry
\* or an empty tag set included (no descriptor has the empty industry, none
\* has a tag in the empty set).
C27_ListFiltersWhenPassed ==
  listing.pc = "returned" =>
    LET a == listing.args
        out == listing.workflows
        wanted ==
          {n \in GraphNames :
             /\ a.industry.given => Industry(n) = a.industry.value
             /\ a.tags.given => \E t \in a.tags.value : t \in Tags(n)
             /\ a.capability_filter.given
                  => ApplyFilter(a.capability_filter.value, Capabilities(n))}
    IN
    /\ {out[i] : i \in 1..Len(out)} = wanted
    /\ \A i, j \in 1..Len(out) : i < j => Registered(out[i]) < Registered(out[j])
    /\ listing.WORKFLOWS = WORKFLOWS

\* the two workflows tagged billing or retail have been listed
C27_TwoTagsTwoWorkflows ==
  /\ listing.pc = "returned"
  /\ listing.args.tags = Passed({"billing", "retail"})
  /\ listing.args.industry = None
  /\ listing.workflows = <<"hospital_admissions", "retail_fulfillment">>

\* C28: once cancellation has been requested for a run, the executor's next
\* step at a node boundary dispatches no further node, writes no further
\* checkpoint, emits workflow_error("cancelled") where it emits events, and
\* ends the run rejected.
DriveMoved(r) ==
  \/ run'[r].ndisp # run[r].ndisp
  \/ run'[r].result # run[r].result
  \/ run'[r].st # run[r].st

C28_CancellationObserved ==
  [][\A r \in Slots :
       (run[r].cancel /\ run[r].pc \in {"driving", "streaming"} /\ DriveMoved(r))
         => /\ run'[r].ndisp = run[r].ndisp
            /\ ckpt' = ckpt
            /\ run'[r].result.done
            /\ run'[r].result.final_state.current_step = "rejected"
            /\ run[r].emit =>
                  /\ Len(run'[r].sink) = Len(run[r].sink) + 1
                  /\ run'[r].sink[Len(run'[r].sink)].type = "workflow_error"
                  /\ run'[r].sink[Len(run'[r].sink)].state.error = "cancelled"]_vars
\* ---------------------------------------------------------------- C29
\* a drive of the compiled graph itself, as test_workflow runs it:
\* graph.ainvoke(initial_state, config), graph.ainvoke(Command(resume=d), config)
GraphRunDone(rr) == rr.api = "graph" /\ rr.pc = "responded" /\ rr.result.done

HotelFirstLeg == <<"check_in", "create_folio", "add_charges", "check_out">>
HotelAllSteps == Append(HotelFirstLeg, "generate_invoice")

StepsAre(st, steps) == Has(st, "steps_completed") /\ st.steps_completed = steps

SuspendedAt(c, node) == c.exists /\ c.interrupted /\ c.next = node

\* C29: a hotel_o2c run started on a fresh thread from an initial state with
\* steps_completed = [] suspends at check-in; resumed there with "approve"
\* it runs check_in, create_folio, add_charges, check_out and suspends a
\* second time at the invoice gate; resumed there with "approve" it does
\* not suspend again and ends completed with steps_completed = [check_in,
\* create_folio, add_charges, check_out, generate_invoice].
C29_HotelApproveApprove ==
  \A r \in Slots :
    LET rr == run[r]
        fs == rr.result.final_state
    IN
    (graph = "hotel_o2c" /\ GraphRunDone(rr)) =>
      /\ (rr.op = "execute" /\ ~rr.from.exists /\ StepsAre(rr.input, << >>))
            => /\ rr.result.success /\ fs.interrupt
               /\ SuspendedAt(ckpt[rr.tid], "check_in_guest")
               /\ StepsAre(fs, << >>)
      /\ (rr.op = "resume" /\ rr.dec = "approve"
            /\ SuspendedAt(rr.from, "check_in_guest") /\ StepsAre(rr.from.st, << >>))
            => /\ rr.result.success /\ fs.interrupt
               /\ SuspendedAt(ckpt[rr.tid], "generate_invoice")
               /\ StepsAre(fs, HotelFirstLeg)
      /\ (rr.op = "resume" /\ rr.dec = "approve"
            /\ SuspendedAt(rr.from, "generate_invoice")
            /\ StepsAre(rr.from.st, HotelFirstLeg))
            => /\ rr.result.success /\ ~fs.interrupt
               /\ ckpt[rr.tid].exists /\ ~ckpt[rr.tid].interrupted
               /\ ckpt[rr.tid].next = END
               /\ fs.current_step = "completed"
               /\ StepsAre(fs, HotelAllSteps)

\* the third drive of such a run has returned: both gates were approved
C29_BothGatesApproved ==
  \E r \in Slots :
    /\ graph = "hotel_o2c" /\ GraphRunDone(run[r])
    /\ run[r].op = "resume" /\ run[r].dec = "approve"
    /\ SuspendedAt(run[r].from, "generate_invoice")
    /\ StepsAre(run[r].from.st, HotelFirstLeg)
    /\ nreq = 3
\* ---------------------------------------------------------------- C30
\* the "step" of the error record each gate appends in its else branch
GateStep(g, node) ==
  CASE g = "hotel_o2c" /\ node = "check_in_guest" -> "check_in"
    [] g = "hotel_o2c" /\ node = "generate_invoice" -> "generate_invoice"
    [] g = "hospital_admissions" /\ node = "create_order_set" -> "create_orders"
    [] g = "hospital_admissions" /\ node = "generate_invoice" -> "generate_invoice"
    [] g = "manufacturing_production" /\ node = "create_material_request"
         -> "create_material_request"
    [] g = "manufacturing_production" /\ node = "create_quality_inspection"
         -> "quality_inspection"
    [] g = "retail_fulfillment" /\ node = "create_sales_order" -> "create_sales_order"
    [] g = "retail_fulfillment" /\ node = "create_payment_entry" -> "create_payment"
    [] g = "education_admissions" /\ node = "schedule_interview" -> "schedule_interview"
    [] g = "education_admissions" /\ node = "make_admission_decision"
         -> "admission_decision"
    [] OTHER -> "not_a_gate"

\* a drive of the compiled graph that resumed a suspended gate with a
\* decision other than "approve" and has returned or raised
RejectedAtGate(rr) ==
  /\ GraphRunDone(rr)
  /\ rr.op = "resume" /\ rr.dec \in Decisions \ {"approve"}
  /\ rr.from.exists /\ rr.from.interrupted

\* C30: in every registered graph, a gate resumed with a decision other than
\* "approve" sends the run to workflow_rejected: exactly one error record,
\* naming the gate's step, is appended to errors (so errors[0].step =
\* check_in for hotel_o2c rejected at check-in with no earlier error), no
\* step is recorded after the gate, the decision is recorded as rejected,
\* and the run ends, without suspending again, with current_step = rejected.
C30_RejectRoutesToRejected ==
  \A r \in Slots :
    LET rr == run[r]
        fs == rr.result.final_state
        before == rr.from.st
    IN
    RejectedAtGate(rr) =>
      /\ GateStep(graph, rr.from.next) # "not_a_gate"
      /\ rr.result.success /\ ~fs.interrupt
      /\ Has(fs, "errors")
      /\ fs.errors = Append(before.errors, GateStep(graph, rr.from.next))
      /\ Has(fs, "steps_completed") = Has(before, "steps_completed")
      /\ fs.steps_completed = before.steps_completed
      /\ Has(fs, "approval_decision") /\ fs.approval_decision = "rejected"
      /\ Has(fs, "current_step") /\ fs.current_step = "rejected"
      /\ ckpt[rr.tid].exists /\ ~ckpt[rr.tid].interrupted
      /\ ckpt[rr.tid].next = END
      /\ (graph = "hotel_o2c" /\ rr.from.next = "check_in_guest"
            /\ before.errors = << >>) => fs.errors[1] = "check_in"

\* ---------------------------------------------------------------- C31
RetailAllSteps ==
  <<"check_inventory", "create_sales_order", "create_pick_list",
    "create_delivery_note", "create_payment">>

SmallOrder(st) == OrderTotal(st.order_items) = 750

\* C31: the payment step never suspends while order_total is below 1000,
\* and a retail_fulfillment run whose order totals 750 reaches completed
\* once it is past the sales order (at once, or after the approval the
\* sales order asks for when stock is low) without suspending at payment.
C31_SmallOrderNoPaymentGate ==
  /\ \A t \in AllThreads :
        (graph = "retail_fulfillment" /\ SuspendedAt(ckpt[t], "create_payment_entry"))
          => ckpt[t].st.order_total >= AUTO_APPROVE_BELOW
  /\ \A r \in Slots :
        LET rr == run[r]
            fs == rr.result.final_state
            ends == /\ rr.result.success /\ ~fs.interrupt
                    /\ fs.current_step = "completed"
                    /\ StepsAre(fs, RetailAllSteps)
                    /\ fs.order_total = 750
                    /\ ckpt[rr.tid].next = END /\ ~ckpt[rr.tid].interrupted
        IN
        (graph = "retail_fulfillment" /\ GraphRunDone(rr) /\ SmallOrder(rr.input)) =>
          /\ (rr.op = "execute" /\ ~rr.from.exists)
                => \/ ends
                   \/ /\ fs.interrupt
                      /\ SuspendedAt(ckpt[rr.tid], "create_sales_order")
                      /\ low_stock_items(rr.input.order_items) # << >>
          /\ (rr.op = "resume" /\ rr.dec = "approve"
                /\ SuspendedAt(rr.from, "create_sales_order")
                /\ StepsAre(rr.from.st, <<"check_inventory">>))
                => ends

\* a 750 order was approved at the sales order and the drive has returned
C31_SmallOrderApprovedOnce ==
  \E r \in Slots :
    /\ graph = "retail_fulfillment" /\ GraphRunDone(run[r])
    /\ SmallOrder(run[r].input)
    /\ run[r].op = "resume" /\ run[r].dec = "approve"
    /\ SuspendedAt(run[r].from, "create_sales_order")
    /\ run[r].result.final_state.current_step = "completed"
\* ---------------------------------------------------------------- C32
Clamp(x, lo, hi) == IF x < lo THEN lo ELSE IF x > hi THEN hi ELSE x

\* the percentage the progress metric gives for `count` completed steps
\* and an estimate (0: not known)
ProgressMetric(count, estimated) ==
  IF estimated = 0 THEN 0 ELSE Clamp((100 * count) \div estimated, 0, 100)

\* C32: every percentage an event carries is
\* clamp(100 * steps completed / estimated, 0, 100) when the estimated
\* step count is known and 0 when it is not, so it stays within 0..100.
\* The steps completed are counted either way the stream allows: the steps
\* the adapter has reported (its current_step) or the nodes that have run.
C32_ProgressClamped ==
  \A i \in 1..Len(o2c.events) :
    LET e == o2c.events[i]
    IN  e.percentage # NoPct =>
          \/ e.percentage = ProgressMetric(o2c.a_current_step, o2c.total_steps)
          \/ e.percentage = ProgressMetric(o2c.ndisp, o2c.total_steps)
\* ---------------------------------------------------------------- C33
\* C33: request_approval returns approved = True only when the resume
\* payload is there and carries approved = True; resumed with no payload,
\* or with a payload that has no approved field, it returns approved = False.
C33_ApprovedOnlyWhenToldSo ==
  approval.pc = "returned" =>
    /\ approval.result.approved = "True"
          => approval.payload.kind = "dict" /\ approval.payload.approved = "True"
    /\ (approval.payload.kind = "none" \/ approval.payload.approved = Absent)
          => approval.result.approved = "False"

\* a resume whose payload has a comment and no approved field has returned
C33_ResumedWithoutApprovedField ==
  /\ approval.pc = "returned"
  /\ approval.payload.kind = "dict"
  /\ approval.payload.approved = Absent
  /\ approval.payload.comment = "ok"
\* ---------------------------------------------------------------- C34
RECURSIVE Pow(_, _)
Pow(b, e) == IF e = 0 THEN 1 ELSE b * Pow(b, e - 1)

RECURSIVE SumSeq(_)
SumSeq(q) == IF q = << >> THEN 0 ELSE q[1] + SumSeq(Tail(q))

\* C34: with_retry calls the operation at most max_attempts times and has
\* returned once that many calls were made; it returns success at the
\* first call that succeeds and failure at the first error the predicate
\* declines, without a further wait; between consecutive calls it waits
\* min(initial_delay * backoff_factor^(attempt-1), max_delay) before jitter,
\* within a quarter of it after jitter; it does not wait after the last
\* call; its state reports the calls made and the sum of the delays waited.
C34_RetryBounded ==
  LET calls == Len(retry.outcomes)
      cfg == retry.cfg
  IN
  retry.pc \in {"running", "returned"} =>
    /\ calls <= cfg.max_attempts \/ (calls = 0 /\ cfg.max_attempts = 0)
    /\ retry.attempt = calls
    /\ (retry.pc = "running" /\ calls > 0) => calls < cfg.max_attempts
    /\ \A i \in 1..calls :
          (i < calls \/ retry.pc = "running") => retry.outcomes[i] = "retryable"
    /\ retry.pc = "returned" =>
          /\ retry.success <=> (calls > 0 /\ retry.outcomes[calls] = "ok")
          /\ Len(retry.waits) = IF calls = 0 THEN 0 ELSE calls - 1
          /\ (calls > 0 /\ retry.outcomes[calls] = "retryable")
                => calls = cfg.max_attempts
    /\ retry.pc = "running" => Len(retry.waits) = calls
    /\ Len(retry.slept) = Len(retry.waits)
    /\ \A k \in 1..Len(retry.waits) :
          LET nominal == cfg.initial_delay * Pow(cfg.backoff_factor, k - 1)
          IN  /\ retry.waits[k] =
                   IF nominal < cfg.max_delay THEN nominal ELSE cfg.max_delay
              /\ 4 * retry.slept[k] >= 3 * retry.waits[k]
              /\ 4 * retry.slept[k] <= 5 * retry.waits[k]
              /\ ~cfg.jitter => retry.slept[k] = retry.waits[k]
    /\ retry.total_delay = SumSeq(retry.slept)

\* the third call has failed for good after two waits, the second capped
C34_ThirdAttemptAfterCappedWait ==
  /\ retry.pc = "returned" /\ ~retry.success
  /\ Len(retry.outcomes) = 3
  /\ retry.waits = <<8, 12>>
\* ---------------------------------------------------------------- C35
\* C35: get_latest and list called for one thread never return, and never
\* extend the TTL of, a checkpoint that was put under another thread id.
C35_ThreadIsolation ==
  \A c \in keyspace.read.checkpoints \cup keyspace.read.extended :
    c.thread = keyspace.read.thread

\* ------------------------------------------------- SessionManager claims
Resolved(a) == a.status \in {"approved", "rejected", "expired"}

\* C36: an approval request is resolved at most once: once its status is
\* approved, rejected or expired no later call changes it, and an approval
\* whose timeout has passed never becomes approved.
C36_ResolvedAtMostOnce ==
  [][\A sid \in SessionIds :
       sid \in DOMAIN sm.sessions /\ sid \in DOMAIN sm'.sessions =>
         \A i \in 1..Len(sm.sessions[sid].pending_approvals) :
           LET before == sm.sessions[sid].pending_approvals[i]
               after == sm'.sessions[sid].pending_approvals[i] IN
           /\ Resolved(before) => after.status = before.status
           /\ before.timeout_at < sm.now /\ before.status # "approved"
                => after.status # "approved"]_vars

SessionExpired(sid) ==
  sid \in DOMAIN sm.sessions /\ sm.sessions[sid].expires_at < sm.now

\* C38: once a session's expiry time has passed, no call of the manager
\* returns it or succeeds on it, nothing of it changes but its status, and
\* its expiry never moves; an expiry is only ever moved at a moment that
\* is not past the expiry it replaces.
C38_ExpiredSessionStaysDead ==
  [][\A sid \in SessionIds :
       sid \in DOMAIN sm.sessions /\ sid \in DOMAIN sm'.sessions =>
         /\ sm'.sessions[sid].expires_at # sm.sessions[sid].expires_at =>
              sm'.sessions[sid].last_activity <= sm.sessions[sid].expires_at
         /\ SessionExpired(sid) =>
              /\ sm'.sessions[sid] =
                    [sm.sessions[sid] EXCEPT !.status = sm'.sessions[sid].status]
              /\ sm'.sessions[sid].status \in {sm.sessions[sid].status, "expired"}
              /\ sm'.sessions # sm.sessions \/ sm'.last # sm.last
                   => ~sm'.last.ok]_vars

\* ----------------------------------------------------- bulk_update claims
BatchFails(b) == \E i \in 1..Len(b.docs) : b.kinds[b.docs[i]] # "ok"

\* C37: bulk_update is all-or-nothing: when any document of the batch
\* fails nothing is committed, updated = 0 and every per-document result
\* is marked failed; when every document succeeds the batch is committed
\* and updated is the number of documents.
C37_AllOrNothing ==
  bulk.pc = "returned" =>
    IF BatchFails(bulk)
      THEN /\ \A d \in DocNames : bulk.committed[d] = "old"
           /\ ~bulk.response.success
           /\ bulk.response.updated = 0
           /\ bulk.response.failed = Len(bulk.docs)
           /\ Len(bulk.response.results) = Len(bulk.docs)
           /\ \A i \in 1..Len(bulk.docs) : ~bulk.response.results[i].success
    ELSE /\ \A d \in DocNames :
              bulk.committed[d] =
                IF \E i \in 1..Len(bulk.docs) : bulk.docs[i] = d
                  THEN "new" ELSE "old"
         /\ bulk.response.success
         /\ bulk.response.updated = Len(bulk.docs)
         /\ bulk.response.failed = 0

\* a batch whose first document was saved and whose second failed has
\* returned
C37_RolledBackAfterSave ==
  /\ bulk.pc = "returned"
  /\ Len(bulk.docs) >= 2
  /\ bulk.kinds[bulk.docs[1]] = "ok"
  /\ bulk.kinds[bulk.docs[2]] # "ok"
  /\ bulk.response.results[1].error = "Update rolled back due to failures in this batch"

\* -------------------------------------------------- CoagentSession claims
\* what each prompt asks for, after the user stories of the tests
ChangesData(prompt) ==
  prompt \in {"Create a reservation for Room 101, check-in tomorrow, 3 nights",
              "Create delivery note and pack order",
              "Create sepsis protocol orders",
              "Schedule interviews for shortlisted candidates this week",
              "Create purchase requisitions for missing materials"}

AllIssued(c) == UNION {c.issued[s] : s \in Sessions}

\* C39: a query that changes data returns requires_approval = true with a
\* fresh approval_id and performs nothing; a read-only query returns
\* requires_approval = false and issues no id; approve succeeds exactly for
\* an id an earlier query of the same session issued and that was not
\* approved before, and answers invalid_approval_id otherwise.
C39_ApprovalProtocol ==
  [][LET r == coagent'.last IN
     /\ r.op = "query" =>
          /\ coagent'.performed = coagent.performed
          /\ IF ChangesData(r.prompt)
               THEN /\ r.requires_approval
                    /\ r.approval_id # NoApprovalId
                    /\ r.approval_id \notin AllIssued(coagent)
                    /\ r.approval_id \in DOMAIN coagent'.pending[r.session]
             ELSE /\ ~r.requires_approval
                  /\ r.approval_id = NoApprovalId
                  /\ coagent'.issued = coagent.issued
                  /\ coagent'.pending = coagent.pending
     /\ r.op = "approve" =>
          IF r.approval_id \in coagent.issued[r.session] \ coagent.approved[r.session]
            THEN /\ r.status = "success"
                 /\ coagent'.performed =
                      coagent.performed \cup {<<r.session, r.approval_id, r.result>>}
          ELSE /\ r.status = "error"
               /\ r.error = "invalid_approval_id"
               /\ coagent'.performed = coagent.performed]_vars

\* an id was approved once and its second approval was refused, while the
\* other session holds an id of its own
C39_RepeatedApprovalRefused ==
  \E s \in Sessions :
    /\ coagent.last.op = "approve"
    /\ coagent.last.session = s
    /\ coagent.last.approval_id \in coagent.approved[s]
    /\ coagent.last.error = "invalid_approval_id"
    /\ \E t \in Sessions \ {s} : coagent.issued[t] # {}

\* ------------------------------------------------- hotel_o2c_graph claims
O2cConfirmed ==
  /\ o2c.state.status = "confirmed"
  /\ O2cSet(o2c.state.reservation_id)
  /\ o2c.state.confirmation_sent = "True"

\* in the record of the run the confirmation comes after the payment, the
\* payment after the reservation, and the reserved room is one that was
\* found available
O2cInOrder ==
  /\ \A i \in 1..Len(o2c.did) :
       /\ o2c.did[i] = "confirmation_sent" =>
            \E j \in 1..(i - 1) : o2c.did[j] = "payment_confirmed"
       /\ o2c.did[i] = "payment_confirmed" =>
            \E j \in 1..(i - 1) : o2c.did[j] = "reservation_created"
       /\ o2c.did[i] = "reservation_created" =>
            \E j \in 1..(i - 1) : o2c.did[j] = "rooms_found"
  /\ (\E i \in 1..Len(o2c.did) : o2c.did[i] = "reservation_created") =>
       \E k \in 1..Len(o2c.state.available_rooms) :
          o2c.state.available_rooms[k] = o2c.state.selected_room

\* C40 as stated: every run started from a state with check_in, check_out
\* and guest_count ends with status = confirmed, a reservation_id and
\* confirmation_sent, sending the confirmation only after the payment and
\* the payment only after the reservation.
C40_EveryRunConfirms ==
  /\ <>(o2c.pc = "ended")
  /\ [](o2c.pc = "ended" => O2cConfirmed)
  /\ []O2cInOrder

\* C40: every run started from a state with check_in, check_out and
\* guest_count and no error set ends with status = confirmed, a
\* reservation_id and confirmation_sent; a run started with an error set
\* ends after check_availability without reserving, charging or
\* confirming; on every path the confirmation is sent only after the
\* payment was confirmed and the payment only after a reservation for an
\* available room.
C40_RunWithoutErrorConfirms ==
  /\ <>(o2c.pc = "ended")
  /\ [](o2c.pc = "ended" =>
          IF O2cSet(o2c.input.error)
            THEN o2c.did = <<"rooms_found">>
          ELSE /\ O2cConfirmed
               /\ o2c.did = <<"rooms_found", "reservation_created",
                              "payment_confirmed", "confirmation_sent">>)
  /\ []O2cInOrder

\* the run of the test's initial state has ended confirmed
C40_TestRunConfirmed ==
  /\ o2c.pc = "ended"
  /\ o2c.input = NoO2cState
  /\ O2cConfirmed
  /\ Len(o2c.did) = 4
====
